---- MODULE Spec2Model ----
(***************************************************************************)
(* Shadow lifecycle engine of amplifier-bundle-shadow: ShadowManager       *)
(* (create / get / add_source / destroy), the forge client, the container  *)
(* runtime and the tool operations exec / exec_batch / sync-source.        *)
(*                                                                         *)
(* Strings are sequences of one-character strings so that the parsers can  *)
(* be modelled by what they do.                                            *)
(***************************************************************************)
EXTENDS Integers, Sequences, FiniteSets, TLC

\* ---------------------------------------------------------------- bounds
\* longest local_sources list passed to one call
MaxSources == 2
\* commits a local repository can reach
MaxCommit == 2
\* longest command list passed to exec_batch
MaxCmds == 2
\* sleeps of half a second that fit in the timeout of wait_ready
MaxPolls == 2

\* ------------------------------------------------------- string helpers
\* index of the first occurrence of c in s, 0 when absent (str.find + 1)
RECURSIVE FirstIndex(_, _, _)
FirstIndex(s, c, i) ==
    IF i > Len(s) THEN 0
    ELSE IF s[i] = c THEN i
    ELSE FirstIndex(s, c, i + 1)

\* index of the last occurrence of c in s, 0 when absent (str.rfind + 1)
RECURSIVE LastIndex(_, _, _)
LastIndex(s, c, i) ==
    IF i < 1 THEN 0
    ELSE IF s[i] = c THEN i
    ELSE LastIndex(s, c, i - 1)

\* length of the longest prefix of s that has no character of stop
RECURSIVE RunLength(_, _, _)
RunLength(s, stop, i) ==
    IF i > Len(s) THEN Len(s)
    ELSE IF s[i] \in stop THEN i - 1
    ELSE RunLength(s, stop, i + 1)

StartsWith(s, p) == Len(s) >= Len(p) /\ SubSeq(s, 1, Len(p)) = p

Drop(s, n) == SubSeq(s, n + 1, Len(s))

\* ------------------------------------------------------------- RepoSpec
\* A missing optional string (None) is the empty sequence; an absent
\* snapshot_commit attribute is Unset.
None == <<>>
Unset == 0

NoMatch == [ok |-> FALSE, org |-> None, name |-> None, branch |-> None]

HttpPrefix == <<"h","t","t","p",":","/","/","g","i","t","h","u","b",".","c","o","m","/">>
HttpsPrefix == <<"h","t","t","p","s",":","/","/","g","i","t","h","u","b",".","c","o","m","/">>
DotGit == <<".","g","i","t">>

\* the tail shared by both patterns: (?:@(.+))?$
RefSuffix(after) ==
    IF after = <<>> THEN [ok |-> TRUE, branch |-> None]
    ELSE IF after[1] = "@" /\ Len(after) >= 2
         THEN [ok |-> TRUE, branch |-> Tail(after)]
         ELSE [ok |-> FALSE, branch |-> None]

\* the groups of a match, when name is not empty and the tail matches
Groups(org, name, after) ==
    IF name = <<>> \/ ~RefSuffix(after).ok THEN NoMatch
    ELSE [ok |-> TRUE, org |-> org, name |-> name, branch |-> RefSuffix(after).branch]

\* (?:\.git)? in front of the tail
SkipDotGit(after, dotGit) ==
    IF dotGit /\ StartsWith(after, DotGit) THEN Drop(after, Len(DotGit)) ELSE after

\* the name is the first n characters of rest
NameOf(org, rest, n, dotGit) ==
    Groups(org, SubSeq(rest, 1, n), SkipDotGit(Drop(rest, n), dotGit))

\* the org ends before the "/" at index i
OrgOf(s, i, nameStop, dotGit) ==
    IF i <= 1 THEN NoMatch
    ELSE NameOf(SubSeq(s, 1, i - 1), Drop(s, i),
                RunLength(Drop(s, i), nameStop, 1), dotGit)

\* ([^/]+)/(name)... with nameStop the characters a name cannot hold
OrgName(s, nameStop, dotGit) == OrgOf(s, FirstIndex(s, "/", 1), nameStop, dotGit)

\* https?://github\.com/([^/]+)/([^/@.]+)(?:\.git)?(?:@(.+))?$
url_match(spec) ==
    IF StartsWith(spec, HttpsPrefix)
    THEN OrgName(Drop(spec, Len(HttpsPrefix)), {"/", "@", "."}, TRUE)
    ELSE IF StartsWith(spec, HttpPrefix)
    THEN OrgName(Drop(spec, Len(HttpPrefix)), {"/", "@", "."}, TRUE)
    ELSE NoMatch

\* ^([^/]+)/([^/@]+)(?:@(.+))?$
simple_match(spec) == OrgName(spec, {"/", "@"}, FALSE)

\* the RepoSpec built from the groups of a match
RepoSpecOf(m) ==
    [ok |-> m.ok, org |-> m.org, name |-> m.name, branch |-> m.branch,
     local_path |-> None, snapshot_commit |-> Unset]

\* RepoSpec.parse: ok = FALSE stands for the ValueError
parse(spec) ==
    RepoSpecOf(IF url_match(spec).ok THEN url_match(spec) ELSE simple_match(spec))

\* host paths that hold a .git directory
GitRepos == { <<"/","p">> }

\* cls(..., local_path=local_path) of a parsed spec
WithPath(base, path_str) ==
    [base EXCEPT !.local_path = IF base.ok THEN path_str ELSE None]

\* the mapping split at its last ":" (index c), the .git test, then parse
rsplit(mapping, c) ==
    IF c = 0 \/ SubSeq(mapping, 1, c - 1) \notin GitRepos THEN parse(<<>>)
    ELSE WithPath(parse(Drop(mapping, c)), SubSeq(mapping, 1, c - 1))

\* RepoSpec.parse_local
parse_local(mapping) == rsplit(mapping, LastIndex(mapping, ":", Len(mapping)))

full_name(r) == r.org \o <<"/">> \o r.name

RepoKey(r) == <<r.org, r.name>>


\* ---------------------------------------------------------------- inputs
Ids == {"a"}                      \* names a caller passes to create
Tasks == {"t1"}                   \* orchestrations (one at a time)

SrcR == <<"/","p",":","a","/","r">>       \* local mapping of a/r
SrcS == <<"/","p",":","a","/","r","s">>   \* the same tree mapped as a/rs
SrcNoGit == <<"/","n",":","a","/","r">>   \* its path is not a git repository
SrcBare == <<"a","/","r">>                \* no path part
SrcBareS == <<"a","/","r","s">>

Lists(strings) == UNION { [1..n -> strings] : n \in 0..MaxSources }

\* what callers pass: to create, to sync-source, to add-source
LocalMappings == Lists({SrcR, SrcS, SrcNoGit})
SyncedSources == Lists({SrcR, SrcBare})
AddedSources == Lists({SrcR, SrcBare})

\* the parsers applied to the strings above, computed once
SourceStrings == {SrcR, SrcS, SrcNoGit, SrcBare, SrcBareS}
parsed == [spec \in SourceStrings |-> parse(spec)]
parsed_local == [mapping \in SourceStrings |-> parse_local(mapping)]

DEFAULT_IMAGE == "amplifier-shadow:local"

\* ----------------------------------------------------------------- state
VARIABLES
    dirs,           \* ids whose host directory environments/<id> exists
    bundles,        \* id -> (repo key -> commit in snapshots/<org>/<name>.bundle)
    metadata,       \* id -> content of metadata.json, for the ids that have one
    containers,     \* id -> state of the container "shadow-" + id
    forge,          \* id -> (repo key -> pushed head) of the forge in the container
    gitconfig,      \* id -> repo keys with insteadOf rules in the container
    environments,   \* ShadowManager._environments: id -> cached handle
    head,           \* HEAD commit of each local git repository
    task,           \* per task: position in the running operation and its locals
    result,         \* per task: what the last operation returned or raised
    executed        \* <<id, command>> run in a container by the running tool call

\* The parts the manager is built from are followed one call at a time:
VARIABLES
    workspace,        \* the workspace directory: relative path -> file content
    _baseline_hashes, \* ShadowEnvironment._baseline_hashes
    gitea,            \* what the forge in the container answers at this moment
    procs,            \* child processes started by ContainerRuntime.exec, alive
    call              \* the call in progress or the last one, with its outcome

manager == <<dirs, bundles, metadata, containers, forge, gitconfig,
             environments, head, task, result, executed>>

parts == <<workspace, _baseline_hashes, gitea, procs, call>>

vars == <<manager, parts>>

Empty == [k \in {} |-> 0]

Idle == [pc |-> "idle", shadow_id |-> "", local_sources |-> <<>>,
         repo_specs |-> <<>>, i |-> 0, commands |-> <<>>, fail_fast |-> TRUE,
         steps |-> <<>>, overall_success |-> TRUE, error |-> "", pre |-> "",
         env |-> Empty]

\* op, shadow_id, commands, fail_fast, force, keys: the call and its inputs;
\* pre: what the call found; outcome, step: how and where it ended;
\* steps, failed_at, success: the output of exec and exec_batch
NoResult == [op |-> "", shadow_id |-> "", outcome |-> "pending", step |-> "",
             steps |-> <<>>, failed_at |-> -1, success |-> FALSE,
             commands |-> <<>>, fail_fast |-> TRUE, force |-> FALSE,
             pre |-> "", keys |-> {}]

Result(op, id, outcome, step) ==
    [op |-> op, shadow_id |-> id, outcome |-> outcome, step |-> step,
     steps |-> <<>>, failed_at |-> -1, success |-> outcome = "ok",
     commands |-> <<>>, fail_fast |-> TRUE, force |-> FALSE,
     pre |-> "", keys |-> {}]

\* op and its arguments; pc: where the call stands ("done": it has ended);
\* outcome: "ok" or the exception; the other fields are the call's locals
\* and what it returned
NoCall == [op |-> "", pc |-> "done", outcome |-> ""]

Init ==
    /\ dirs = {}
    /\ bundles = [id \in Ids |-> Empty]
    /\ metadata = Empty
    /\ containers = [id \in Ids |-> "none"]
    /\ forge = [id \in Ids |-> Empty]
    /\ gitconfig = [id \in Ids |-> {}]
    /\ environments = Empty
    /\ head = [p \in GitRepos |-> 1]
    /\ task = [t \in Tasks |-> Idle]
    /\ result = [t \in Tasks |-> NoResult]
    /\ executed = <<>>
    /\ workspace = Empty
    /\ _baseline_hashes = Empty
    /\ gitea = "starting"
    /\ procs = {}
    /\ call = NoCall

Without(f, k) == [x \in DOMAIN f \ {k} |-> f[x]]
With(f, k, v) == [x \in DOMAIN f \cup {k} |-> IF x = k THEN v ELSE f[x]]

\* an operation ends: the task is idle again and the caller sees r
Return(t, r) ==
    /\ task' = [task EXCEPT ![t] = Idle]
    /\ result' = [result EXCEPT ![t] = r]

\* shutil.rmtree(shadow_dir): workspace, snapshots and metadata.json go
rmtree(id) ==
    /\ dirs' = dirs \ {id}
    /\ bundles' = [bundles EXCEPT ![id] = Empty]
    /\ metadata' = Without(metadata, id)

\* a removal that leaves the container where it is
remove_ineffective(id) == UNCHANGED <<containers, forge, gitconfig>>

\* ContainerRuntime.remove(name, force=True)
remove(id) ==
    /\ containers' = [containers EXCEPT ![id] = "none"]
    /\ forge' = [forge EXCEPT ![id] = Empty]
    /\ gitconfig' = [gitconfig EXCEPT ![id] = {}]

\* a test that takes a stopped container for a running one
is_running_or_stopped(id) == containers[id] # "none"

\* ContainerRuntime.is_running
is_running(id) == containers[id] = "running"

\* ContainerRuntime.exists
exists(id) == containers[id] # "none"


\* ------------------------------------------------- ShadowManager.create
\* create is a chain of awaits; each action below runs from one await to
\* the next.  A fault chosen with \E is the awaited call failing.

\* what create returns or raises
CreateResult(t, outcome, step) ==
    [Result("create", task[t].shadow_id, outcome, step) EXCEPT !.pre = task[t].pre]

\* the call follows a destroy of the same, fully created, shadow that
\* removed its container
AfterDestroy(t, name) ==
    /\ result[t].op = "destroy" /\ result[t].shadow_id = name
    /\ result[t].outcome = "ok" /\ result[t].step = "removed"
    /\ result[t].pre = "live"

\* create without the directory test
dir_exists_untested(name) == FALSE

\* line 89: shadow_dir.exists()
dir_exists(name) == name \in dirs

ParseAll(local_sources) == [k \in DOMAIN local_sources |-> parsed_local[local_sources[k]]]

\* lines 81-94: the directory test, then the await of runtime.exists
CreateCall(t, name, local_sources, env) ==
    /\ task[t].pc = "idle"
    /\ executed' = <<>>
    /\ IF dir_exists(name)
       THEN Return(t, [Result("create", name, "AlreadyExists", "dir") EXCEPT
                          !.pre = IF AfterDestroy(t, name) THEN "after_destroy" ELSE ""])
       ELSE /\ task' = [task EXCEPT ![t] = [Idle EXCEPT !.pc = "c_exists",
                            !.shadow_id = name, !.local_sources = local_sources,
                            !.env = env,
                            !.pre = IF AfterDestroy(t, name) THEN "after_destroy"
                                    ELSE ""]]
            /\ result' = [result EXCEPT ![t] = NoResult]
    /\ UNCHANGED <<dirs, bundles, metadata, containers, forge, gitconfig,
                   environments, head>>
    /\ UNCHANGED parts

\* lines 93-104: container test, mkdir of the tree, parse of the sources
CreateExists(t) ==
    LET id == task[t].shadow_id
        specs == ParseAll(task[t].local_sources)
    IN  /\ task[t].pc = "c_exists"
        /\ IF exists(id)
           THEN /\ Return(t, CreateResult(t, "AlreadyExists", "container"))
                /\ UNCHANGED dirs
           ELSE /\ dirs' = dirs \cup {id}
                /\ IF \E k \in DOMAIN specs : ~specs[k].ok
                   THEN Return(t, CreateResult(t, "InvalidInput", "parse"))
                   ELSE /\ task' = [task EXCEPT ![t].repo_specs = specs,
                                        ![t].i = 1,
                                        ![t].pc = IF specs = <<>> THEN "c_image"
                                                  ELSE "c_snapshot"]
                        /\ UNCHANGED result
        /\ UNCHANGED <<bundles, metadata, containers, forge, gitconfig,
                       environments, head, executed>>
        /\ UNCHANGED parts

\* lines 108-116: SnapshotManager.create_snapshot of spec i
CreateSnapshot(t) ==
    LET id == task[t].shadow_id
        i == task[t].i
        spec == task[t].repo_specs[i]
        sha == head[spec.local_path]
    IN  /\ task[t].pc = "c_snapshot"
        /\ \E ok \in BOOLEAN :
              IF ok
              THEN /\ bundles' = [bundles EXCEPT ![id] = With(@, RepoKey(spec), sha)]
                   /\ task' = [task EXCEPT ![t].repo_specs[i].snapshot_commit = sha,
                                   ![t].i = i + 1,
                                   ![t].pc = IF i = Len(task[t].repo_specs)
                                             THEN "c_image" ELSE "c_snapshot"]
                   /\ UNCHANGED result
              ELSE /\ Return(t, CreateResult(t, "SnapshotFailed", "snapshot"))
                   /\ UNCHANGED bundles
        /\ UNCHANGED <<dirs, metadata, containers, forge, gitconfig,
                       environments, head, executed>>
        /\ UNCHANGED parts

\* lines 118-130: ImageBuilder.ensure_image
CreateImage(t) ==
    LET id == task[t].shadow_id
    IN  /\ task[t].pc = "c_image"
        /\ \E ok \in BOOLEAN :
              IF ok
              THEN /\ task' = [task EXCEPT ![t].pc = "c_run"]
                   /\ UNCHANGED <<dirs, bundles, metadata, result>>
              ELSE /\ rmtree(id)
                   /\ Return(t, CreateResult(t, "ImageUnavailable", "image"))
        /\ UNCHANGED <<containers, forge, gitconfig, environments, head, executed>>
        /\ UNCHANGED parts

\* lines 132-152: runtime.run with the two mounts
CreateRun(t) ==
    LET id == task[t].shadow_id
    IN  /\ task[t].pc = "c_run"
        /\ \E ok \in BOOLEAN :
              IF ok /\ ~exists(id)
              THEN /\ containers' = [containers EXCEPT ![id] = "running"]
                   /\ task' = [task EXCEPT ![t].pc = "c_wait_ready"]
                   /\ UNCHANGED <<dirs, bundles, metadata, result>>
              ELSE /\ rmtree(id)
                   /\ Return(t, CreateResult(t, "ContainerStartFailed", "run"))
                   /\ UNCHANGED containers
        /\ UNCHANGED <<forge, gitconfig, environments, head, executed>>
        /\ UNCHANGED parts


\* lines 175-176: except Exception of the setup block; the cleanup runs next
SetupFailed(t, why) ==
    /\ task' = [task EXCEPT ![t].pc = "c_cleanup", ![t].error = why]
    /\ UNCHANGED <<result, environments>>

\* lines 156-161: GiteaClient.wait_ready(timeout=60.0)
CreateWaitReady(t) ==
    LET id == task[t].shadow_id
    IN  /\ task[t].pc = "c_wait_ready"
        /\ \E ready \in BOOLEAN :
              IF ready /\ is_running(id)
              THEN /\ task' = [task EXCEPT ![t].i = 1,
                                   ![t].pc = IF task[t].repo_specs = <<>>
                                             THEN "c_rewrite" ELSE "c_push"]
                   /\ UNCHANGED <<result, environments>>
              ELSE SetupFailed(t, "wait_ready")
        /\ UNCHANGED <<dirs, bundles, metadata, containers, forge, gitconfig,
                       head, executed>>
        /\ UNCHANGED parts

\* a forge that answers 201 for a repository it already has
create_repo_again(id, key) == TRUE

\* GiteaClient.create_repo: the forge answers 201 for a new repository and
\* 409 for one it already has; anything but 200/201 raises
create_repo_ok(id, key) == key \notin DOMAIN forge[id]

\* a push without --force: a repository the forge already has keeps its head
push_bundle_unforced(f, key, sha) == IF key \in DOMAIN f THEN f ELSE With(f, key, sha)

\* GiteaClient.push_bundle: clone the bundle, push --all --force; the
\* repository f[key] of the forge ends at the bundle's commit
push_bundle(f, key, sha) == With(f, key, sha)

\* GiteaClient.setup_repo_from_bundle: org, repository, push
setup_repo_from_bundle_ok(id, key, fault) ==
    is_running(id) /\ ~fault /\ create_repo_ok(id, key) /\ key \in DOMAIN bundles[id]

\* lines 163-170: provision and push spec i
CreatePush(t) ==
    LET id == task[t].shadow_id
        i == task[t].i
        key == RepoKey(task[t].repo_specs[i])
    IN  /\ task[t].pc = "c_push"
        /\ \E fault \in BOOLEAN :
              IF setup_repo_from_bundle_ok(id, key, fault)
              THEN /\ forge' = [forge EXCEPT ![id] = push_bundle(@, key, bundles[id][key])]
                   /\ task' = [task EXCEPT ![t].i = i + 1,
                                   ![t].pc = IF i = Len(task[t].repo_specs)
                                             THEN "c_rewrite" ELSE "c_push"]
                   /\ UNCHANGED <<result, environments>>
              ELSE /\ SetupFailed(t, "push")
                   /\ UNCHANGED forge
        /\ UNCHANGED <<dirs, bundles, metadata, containers, gitconfig,
                       head, executed>>
        /\ UNCHANGED parts

\* ------------------------------------------ the insteadOf rules of a spec
EndsWith(s, p) == Len(s) >= Len(p) /\ SubSeq(s, Len(s) - Len(p) + 1, Len(s)) = p

SshScp == <<"g","i","t","@","g","i","t","h","u","b",".","c","o","m",":">>
SshUrl == <<"s","s","h",":","/","/","g","i","t","@","g","i","t","h","u","b",".","c","o","m","/">>
GitPlus == <<"g","i","t","+">>
ForgeBase == <<"h","t","t","p",":","/","/","s","h","a","d","o","w",":","s","h","a","d","o","w","@","l","o","c","a","l","h","o","s","t",":","3","0","0","0","/">>

\* lines 377-379: where the forge serves the repository
gitea_url(org, name) == ForgeBase \o org \o <<"/">> \o name \o DotGit

\* one GitHub URL form of org/name
Pattern(prefix, org, name, suffix) == prefix \o org \o <<"/">> \o name \o suffix

\* a list in which the scp-like form has no boundary either
patterns_scp_bare(org, name) ==
    << Pattern(HttpsPrefix, org, name, <<>>),
       Pattern(HttpsPrefix, org, name, DotGit),
       Pattern(SshScp, org, name, <<>>),
       Pattern(SshScp, org, name, DotGit) >>

\* lines 388-407: the prefixes rewritten for one spec
patterns(org, name) ==
    << Pattern(HttpsPrefix, org, name, <<>>),
       Pattern(HttpsPrefix, org, name, DotGit),
       Pattern(HttpsPrefix, org, name, DotGit \o <<"/">>),
       Pattern(HttpsPrefix, org, name, <<"/">>),
       Pattern(HttpsPrefix, org, name, <<"@">>),
       Pattern(SshScp, org, name, DotGit),
       Pattern(SshScp, org, name, <<"/">>),
       Pattern(SshScp, org, name, <<"@">>),
       Pattern(SshUrl, org, name, DotGit),
       Pattern(SshUrl, org, name, <<"/">>),
       Pattern(SshUrl, org, name, <<"@">>),
       Pattern(GitPlus \o HttpsPrefix, org, name, DotGit),
       Pattern(GitPlus \o HttpsPrefix, org, name, <<"@">>),
       Pattern(GitPlus \o SshUrl, org, name, DotGit),
       Pattern(GitPlus \o SshUrl, org, name, <<"@">>) >>

\* lines 409-413: url.<gitea_url>.insteadOf <pattern>, one rule per pattern
rules_for(url_, ps) == { [url |-> url_, insteadOf |-> ps[k]] : k \in DOMAIN ps }

rules_of(key) == rules_for(gitea_url(key[1], key[2]), patterns(key[1], key[2]))

\* the url.*.insteadOf entries of the git configuration in container id
insteadOf(id) == UNION { rules_of(key) : key \in gitconfig[id] }

\* lines 376-423: one git config --add per pattern, each its own exec whose
\* exit status is dropped (lines 422-423); applied holds the specs whose
\* commands took effect
configure(id, specs, applied) ==
    IF is_running(id)
    THEN gitconfig[id] \cup { RepoKey(specs[k]) : k \in applied }
    ELSE gitconfig[id]

\* line 448: the text https://github.com/<org>/<name> occurs in the rules of key
Covers(key, spec) == key[1] = spec.org /\ StartsWith(key[2], spec.name)

\* _verify_git_rewriting: get-regexp exits non-zero when there is no rule
verify_ok(id, rules, specs) ==
    /\ is_running(id)
    /\ rules # {}
    /\ \A k \in DOMAIN specs : \E key \in rules : Covers(key, specs[k])

\* _write_metadata: reading snapshot_commit of a spec that has none raises
metadata_raises(repos) == \E k \in DOMAIN repos : repos[k].snapshot_commit = Unset

source_info(r) == [repo |-> full_name(r), local_path |-> r.local_path,
                   snapshot_commit |-> r.snapshot_commit]

\* line 26, and line 139: the caller's variables over the defaults
DEFAULT_ENV_VARS == [k \in {"UV_NO_GITHUB_FAST_PATH"} |-> "1"]
container_env(env) == [k \in DOMAIN env \cup DOMAIN DEFAULT_ENV_VARS |->
                          IF k \in DOMAIN env THEN env[k] ELSE DEFAULT_ENV_VARS[k]]

\* a list of what the variables are set to
env_values(env_vars) == { env_vars[k] : k \in DOMAIN env_vars }

\* line 482: list(env_vars.keys())
env_keys(env_vars) == DOMAIN env_vars

\* lines 454-485; env_vars None or empty: no env_vars_passed in the file,
\* which reads as no name
_write_metadata(repos, image, env_vars) ==
    [local_sources |-> [k \in DOMAIN repos |-> source_info(repos[k])],
     image |-> image,
     env_vars_passed |-> IF env_vars = Empty THEN {} ELSE env_keys(env_vars)]

\* the handle built by create (lines 185-197): status READY, baseline taken
NewEnvironment(repos) == [repos |-> repos, status |-> "ready", baseline |-> TRUE]

\* lines 172-202: rewriting, then metadata, handle, baseline and cache
CreateRewrite(t) ==
    LET id == task[t].shadow_id
        specs == task[t].repo_specs
    IN  /\ task[t].pc = "c_rewrite"
        /\ \E applied \in SUBSET DOMAIN specs, written \in BOOLEAN :
              LET rules == configure(id, specs, applied)
              IN  /\ gitconfig' = [gitconfig EXCEPT ![id] = rules]
                  /\ IF ~verify_ok(id, rules, specs)
                     THEN /\ SetupFailed(t, "rewrite")
                          /\ UNCHANGED metadata
                     ELSE IF ~written \/ metadata_raises(specs)
                     THEN /\ Return(t, CreateResult(t, "OSError", "metadata"))
                          /\ UNCHANGED <<metadata, environments>>
                     ELSE /\ metadata' = With(metadata, id,
                                              _write_metadata(specs, DEFAULT_IMAGE,
                                                  container_env(task[t].env)))
                          /\ environments' = With(environments, id, NewEnvironment(specs))
                          /\ Return(t, CreateResult(t, "ok", "done"))
        /\ UNCHANGED <<dirs, bundles, containers, forge, head, executed>>
        /\ UNCHANGED parts

\* lines 177-179: force-remove the container, delete the directory, raise
CreateCleanup(t) ==
    LET id == task[t].shadow_id
    IN  /\ task[t].pc = "c_cleanup"
        /\ remove(id)
        /\ rmtree(id)
        /\ Return(t, CreateResult(t, "SetupFailed", task[t].error))
        /\ UNCHANGED <<environments, head, executed>>
        /\ UNCHANGED parts

\* the task running create is cancelled while it waits: CancelledError is
\* not an Exception, so no handler of create runs
CreatePcs == {"c_exists", "c_snapshot", "c_image", "c_run", "c_wait_ready",
              "c_push", "c_rewrite", "c_cleanup"}

\* The subprocess an await was waiting for is not killed by the cancellation:
\* a docker run or docker rm in flight may or may not have taken effect.
CancelCreate(t) ==
    LET id == task[t].shadow_id
    IN  /\ task[t].pc \in CreatePcs
        /\ Return(t, CreateResult(t, "Cancelled", task[t].pc))
        /\ \E done \in BOOLEAN :
              IF done /\ task[t].pc = "c_run" /\ ~exists(id)
              THEN /\ containers' = [containers EXCEPT ![id] = "running"]
                   /\ UNCHANGED <<forge, gitconfig>>
              ELSE IF done /\ task[t].pc = "c_cleanup"
              THEN remove(id)
              ELSE UNCHANGED <<containers, forge, gitconfig>>
        /\ UNCHANGED <<dirs, bundles, metadata, environments, head, executed>>
        /\ UNCHANGED parts


\* ---------------------------------------------------- ShadowManager.get
\* _load_from_disk, lines 489-496: directory and metadata.json must exist
Loadable(id) == id \in dirs /\ id \in DOMAIN metadata

\* lines 503-512: a spec is parsed back from its "repo" text
load_spec(info) == [parsed[info.repo] EXCEPT !.local_path = info.local_path]

\* lines 523-531: the rebuilt handle, status READY, no baseline
_load_from_disk(id) ==
    [repos |-> [k \in DOMAIN metadata[id].local_sources |->
                    load_spec(metadata[id].local_sources[k])],
     status |-> "ready", baseline |-> FALSE]

\* get: whether a handle comes back, which one, and the cache afterwards
get_found(id) == id \in DOMAIN environments \/ Loadable(id)

get(id) == IF id \in DOMAIN environments THEN environments[id]
           ELSE _load_from_disk(id)

get_cache(id) == IF id \notin DOMAIN environments /\ Loadable(id)
                 THEN With(environments, id, _load_from_disk(id))
                 ELSE environments

\* ------------------------------------------------ ShadowManager.destroy
\* a destroy that raises whatever force says
remove_raised_always(raises, force) == raises

\* lines 324-329: a failure of runtime.remove is raised unless force
remove_raised(raises, force) == raises /\ ~force

\* what destroy found: a created shadow, leftovers, or nothing at all
DestroyResult(id, force, outcome, step) ==
    [Result("destroy", id, outcome, step) EXCEPT
        !.force = force,
        !.pre = IF id \in DOMAIN metadata THEN "live"
                ELSE IF id \in dirs \/ containers[id] # "none" THEN "partial"
                ELSE "missing"]

\* lines 313-338, and the tool's {"destroyed": True}
Destroy(t, id, force) ==
    /\ task[t].pc = "idle"
    /\ executed' = <<>>
    /\ \E raises \in BOOLEAN :
          IF remove_raised(raises, force)
          THEN /\ Return(t, DestroyResult(id, force, "RuntimeError", "remove"))
               /\ UNCHANGED <<dirs, bundles, metadata, containers, forge,
                              gitconfig, environments>>
          ELSE /\ IF raises THEN UNCHANGED <<containers, forge, gitconfig>>
                  ELSE remove(id)
               /\ environments' = Without(environments, id)
               /\ rmtree(id)
               /\ Return(t, DestroyResult(id, force, "ok",
                                          IF raises THEN "suppressed" ELSE "removed"))
    /\ UNCHANGED head
    /\ UNCHANGED parts

\* -------------------------------------------------------- environment
\* a new process: ShadowManager.__init__ starts with an empty cache
Restart(t) ==
    /\ task[t].pc = "idle"
    /\ environments # Empty
    /\ environments' = Empty
    /\ UNCHANGED <<dirs, bundles, metadata, containers, forge, gitconfig,
                   head, task, result, executed>>
    /\ UNCHANGED parts

\* the container stops (ContainerRuntime.stop, or its main process exits)
Stop(id) ==
    /\ containers[id] = "running"
    /\ containers' = [containers EXCEPT ![id] = "stopped"]
    /\ UNCHANGED <<dirs, bundles, metadata, forge, gitconfig, environments,
                   head, task, result, executed>>
    /\ UNCHANGED parts

\* a stopped container is removed from outside (docker rm, prune)
Prune(id) ==
    /\ containers[id] = "stopped"
    /\ remove(id)
    /\ UNCHANGED <<dirs, bundles, metadata, environments, head, task, result,
                   executed>>
    /\ UNCHANGED parts

\* the developer commits to a local repository
Commit(p) ==
    /\ head[p] < MaxCommit
    /\ head' = [head EXCEPT ![p] = @ + 1]
    /\ UNCHANGED <<dirs, bundles, metadata, containers, forge, gitconfig,
                   environments, task, result, executed>>
    /\ UNCHANGED parts


\* --------------------------------------------- ShadowManager.add_source
Keys(repos) == { RepoKey(repos[k]) : k \in DOMAIN repos }

\* line 239: the sources are parsed with RepoSpec.parse
ParseNew(local_sources) == [k \in DOMAIN local_sources |-> parsed[local_sources[k]]]

\* lines 242-247: a new spec whose (org, name) the shadow already has
Duplicate(env, new_specs) == \E k \in DOMAIN new_specs : RepoKey(new_specs[k]) \in Keys(env.repos)

\* lines 233-298.  self.snapshot_manager is never assigned, so line 255
\* raises AttributeError as soon as there is a spec to snapshot.
AddSource(t, id, local_sources) ==
    LET env == get(id)
        new_specs == ParseNew(local_sources)
        finish(outcome, step) ==
            Return(t, [Result("add_source", id, outcome, step) EXCEPT
                          !.keys = Keys(new_specs),
                          !.pre = IF ~get_found(id) \/ new_specs = <<>> THEN ""
                                  ELSE IF \E k \in DOMAIN new_specs : ~new_specs[k].ok
                                  THEN "invalid"
                                  ELSE IF Duplicate(env, new_specs) THEN "present"
                                  ELSE "absent"])
        keep == UNCHANGED <<metadata, gitconfig>>
    IN  /\ task[t].pc = "idle"
        /\ executed' = <<>>
        /\ environments' = get_cache(id)
        /\ IF ~get_found(id)
           THEN finish("NotFound", "get") /\ keep
           ELSE IF \E k \in DOMAIN new_specs : ~new_specs[k].ok
           THEN finish("InvalidInput", "parse") /\ keep
           ELSE IF Duplicate(env, new_specs)
           THEN finish("AlreadyPresent", "duplicate") /\ keep
           ELSE IF new_specs # <<>>
           THEN finish("AttributeError", "snapshot") /\ keep
           ELSE \E applied \in SUBSET DOMAIN new_specs :
                LET rules == configure(id, new_specs, applied)
                IN  /\ gitconfig' = [gitconfig EXCEPT ![id] = rules]
                    /\ IF ~verify_ok(id, rules, new_specs)
                       THEN finish("RuntimeError", "rewrite") /\ UNCHANGED metadata
                       ELSE IF metadata_raises(env.repos)
                       THEN finish("AttributeError", "metadata") /\ UNCHANGED metadata
                       ELSE /\ metadata' = With(metadata, id,
                                                _write_metadata(env.repos, None, Empty))
                            /\ finish("ok", "done")
        /\ UNCHANGED <<dirs, bundles, containers, forge, head>>
        /\ UNCHANGED parts

\* ------------------------------------------------- tool: exec, exec_batch
\* what waiting for a command gives: an exit status, or Timeout when
\* asyncio.wait_for gives up first
Timeout == -1
Outcomes == {0, 1, Timeout}

\* docker exec in a container that is not running fails without running it
exec_outcome(id, o) == IF is_running(id) THEN o ELSE 1

Ran(id, command) == IF is_running(id) THEN Append(executed, <<id, command>>)
                    ELSE executed

\* ShadowTool._exec lines 434-450 and _exec_batch lines 477-506
ToolCall(t, op, id, commands, fail_fast) ==
    /\ task[t].pc = "idle"
    /\ executed' = <<>>
    /\ environments' = IF commands = <<>> THEN environments ELSE get_cache(id)
    /\ IF commands = <<>>
       THEN Return(t, Result(op, id, "InvalidInput", "commands"))
       ELSE IF ~get_found(id)
       THEN Return(t, Result(op, id, "NotFound", "get"))
       ELSE IF ~is_running(id)
       THEN Return(t, Result(op, id, "ContainerNotRunning", "is_running"))
       ELSE /\ task' = [task EXCEPT ![t] = [Idle EXCEPT !.pc = op,
                            !.shadow_id = id, !.commands = commands,
                            !.fail_fast = fail_fast, !.i = 1]]
            /\ result' = [result EXCEPT ![t] = NoResult]
    /\ UNCHANGED <<dirs, bundles, metadata, containers, forge, gitconfig, head>>
    /\ UNCHANGED parts

ExecCall(t, id) == ToolCall(t, "exec", id, <<1>>, TRUE)

BatchCall(t, id, n, fail_fast) ==
    ToolCall(t, "exec_batch", id, [k \in 1..n |-> k], fail_fast)

\* _exec lines 452-464; a timeout is raised and execute() turns it into an
\* error result without output
ExecRun(t) ==
    LET id == task[t].shadow_id
    IN  /\ task[t].pc = "exec"
        /\ executed' = Ran(id, 1)
        /\ \E o \in Outcomes :
              LET code == exec_outcome(id, o)
              IN  IF code = Timeout
                  THEN Return(t, Result("exec", id, "Timeout", "exec"))
                  ELSE Return(t, [Result("exec", id,
                                         IF code = 0 THEN "ok" ELSE "CommandFailed",
                                         "exec")
                                  EXCEPT !.steps = <<[command |-> 1, exit_code |-> code]>>])
        /\ UNCHANGED <<dirs, bundles, metadata, containers, forge, gitconfig,
                       environments, head>>
        /\ UNCHANGED parts

\* a batch that never stops early
stop_batch_never(code, fail_fast) == FALSE

\* line 525-527: stop after a failing command
stop_batch(code, fail_fast) == code # 0 /\ fail_fast

\* _exec_batch lines 508-543: one command per step
BatchRun(t) ==
    LET id == task[t].shadow_id
        i == task[t].i
        command == task[t].commands[i]
    IN  /\ task[t].pc = "exec_batch"
        /\ executed' = Ran(id, command)
        /\ \E o \in Outcomes :
              LET code == exec_outcome(id, o)
                  steps == Append(task[t].steps, [command |-> command, exit_code |-> code])
                  overall_success == task[t].overall_success /\ code = 0
                  failed_at == IF stop_batch(code, task[t].fail_fast) THEN i - 1 ELSE -1
              IN  IF code = Timeout
                  THEN Return(t, [Result("exec_batch", id, "Timeout", "exec")
                                  EXCEPT !.commands = task[t].commands,
                                         !.fail_fast = task[t].fail_fast])
                  ELSE IF stop_batch(code, task[t].fail_fast) \/ i = Len(task[t].commands)
                  THEN Return(t, [Result("exec_batch", id,
                                         IF overall_success THEN "ok" ELSE "BatchFailed",
                                         "exec")
                                  EXCEPT !.steps = steps, !.failed_at = failed_at,
                                         !.commands = task[t].commands,
                                         !.fail_fast = task[t].fail_fast])
                  ELSE /\ task' = [task EXCEPT ![t].steps = steps, ![t].i = i + 1,
                                       ![t].overall_success = overall_success]
                       /\ UNCHANGED result
        /\ UNCHANGED <<dirs, bundles, metadata, containers, forge, gitconfig,
                       environments, head>>
        /\ UNCHANGED parts


\* -------------------------------------------- ShadowManager.sync_source
\* The tool calls manager.sync_source (tool lines 369-417).  Its steps are
\* those the design gives: a new spec is added (snapshot, provision, push,
\* rewrite rules); a present spec is snapshotted again and force-pushed.
SyncOne(st, spec) ==
    LET key == RepoKey(spec)
        sha == head[spec.local_path]
        synced == [spec EXCEPT !.snapshot_commit = sha]
        present == key \in Keys(st.repos)
    IN  [bundles |-> With(st.bundles, key, sha),
         forge |-> push_bundle(st.forge, key, sha),
         rules |-> st.rules \cup {key},
         repos |-> IF present
                   THEN [k \in DOMAIN st.repos |->
                            IF RepoKey(st.repos[k]) = key THEN synced ELSE st.repos[k]]
                   ELSE Append(st.repos, synced)]

RECURSIVE SyncAll(_, _, _)
SyncAll(st, specs, k) ==
    IF k > Len(specs) THEN st
    ELSE SyncAll(SyncOne(st, specs[k]), specs, k + 1)

SyncSource(t, id, local_sources) ==
    LET env == get(id)
        specs == ParseAll(local_sources)
        st == SyncAll([bundles |-> bundles[id], forge |-> forge[id],
                       rules |-> gitconfig[id], repos |-> env.repos], specs, 1)
        finish(outcome, step) ==
            Return(t, [Result("sync_source", id, outcome, step) EXCEPT
                          !.keys = Keys(specs),
                          !.pre = IF ~get_found(id) \/ specs = <<>> THEN ""
                                  ELSE IF \E k \in DOMAIN specs : ~specs[k].ok
                                  THEN "invalid"
                                  ELSE IF Keys(specs) \subseteq Keys(env.repos)
                                  THEN "present" ELSE "absent"])
        keep == UNCHANGED <<bundles, forge, gitconfig, metadata>>
    IN  /\ task[t].pc = "idle"
        /\ executed' = <<>>
        /\ environments' = IF get_found(id) /\ \A k \in DOMAIN specs : specs[k].ok
                                            /\ is_running(id)
                           THEN With(environments, id, [env EXCEPT !.repos = st.repos])
                           ELSE get_cache(id)
        /\ IF ~get_found(id)
           THEN finish("NotFound", "get") /\ keep
           ELSE IF \E k \in DOMAIN specs : ~specs[k].ok
           THEN finish("InvalidInput", "parse") /\ keep
           ELSE IF ~is_running(id)
           THEN finish("ContainerNotRunning", "sync") /\ keep
           ELSE /\ bundles' = [bundles EXCEPT ![id] = st.bundles]
                /\ forge' = [forge EXCEPT ![id] = st.forge]
                /\ gitconfig' = [gitconfig EXCEPT ![id] = st.rules]
                /\ metadata' = With(metadata, id,
                       [local_sources |-> [k \in DOMAIN st.repos |-> source_info(st.repos[k])],
                        image |-> IF id \in DOMAIN metadata THEN metadata[id].image
                                  ELSE None,
                        env_vars_passed |-> IF id \in DOMAIN metadata
                                            THEN metadata[id].env_vars_passed ELSE {}])
                /\ finish("ok", "done")
        /\ UNCHANGED <<dirs, containers, head>>
        /\ UNCHANGED parts

\* ------------------------------------------------------------------ Next
\* create raises at line 90, before it reads its sources, when the
\* directory is there: one list then stands for all of them
CreateInputs(name) == IF dir_exists(name) THEN {<<>>} ELSE LocalMappings

Next ==
    \E t \in Tasks :
        \/ \E name \in Ids : \E ls \in CreateInputs(name) : CreateCall(t, name, ls, Empty)
        \/ CreateExists(t)
        \/ CreateSnapshot(t)
        \/ CreateImage(t)
        \/ CreateRun(t)
        \/ CreateWaitReady(t)
        \/ CreatePush(t)
        \/ CreateRewrite(t)
        \/ CreateCleanup(t)
        \/ CancelCreate(t)
        \/ \E id \in Ids, force \in BOOLEAN : Destroy(t, id, force)
        \/ \E id \in Ids, ls \in AddedSources : AddSource(t, id, ls)
        \/ \E id \in Ids, ls \in SyncedSources : SyncSource(t, id, ls)
        \/ \E id \in Ids : ExecCall(t, id)
        \/ ExecRun(t)
        \/ \E id \in Ids, n \in 0..MaxCmds, ff \in BOOLEAN : BatchCall(t, id, n, ff)
        \/ BatchRun(t)
        \/ Restart(t)
        \/ \E id \in Ids : Stop(id)
        \/ \E id \in Ids : Prune(id)
        \/ \E p \in GitRepos : Commit(p)

Spec == Init /\ [][Next]_vars


\* ------------------------------------------------ create with variables
\* The tool passes the API keys that are set on the host (tool lines
\* 212-224).  The behaviours of create, add_source and destroy with one key
\* unset, or set to one of two secrets:
Envs == { Empty, [k \in {"ANTHROPIC_API_KEY"} |-> "sk-1"],
          [k \in {"ANTHROPIC_API_KEY"} |-> "sk-2"] }

MetadataNext ==
    \E t \in Tasks :
        \/ \E name \in Ids, ls \in Lists({SrcR}), env \in Envs : CreateCall(t, name, ls, env)
        \/ CreateExists(t)
        \/ CreateSnapshot(t)
        \/ CreateImage(t)
        \/ CreateRun(t)
        \/ CreateWaitReady(t)
        \/ CreatePush(t)
        \/ CreateRewrite(t)
        \/ CreateCleanup(t)
        \/ \E id \in Ids, force \in BOOLEAN : Destroy(t, id, force)
        \/ \E id \in Ids, ls \in AddedSources : AddSource(t, id, ls)

MetadataSpec == Init /\ [][MetadataNext]_vars

\* ======================================================== the parts
\* Calls into ShadowEnvironment, and calls into GiteaClient and
\* ContainerRuntime, followed one at a time on their own.

\* -------------------------------------- ShadowEnvironment.extract, inject
\* A host path is the sequence of its names from the root; shadow_dir is
\* /e, and in the workspace there can be the file f and the file d/g.
workspace_dir == << <<"e">> >> \o << <<"w","o","r","k","s","p","a","c","e">> >>
home_dir == << <<"e">> >> \o << <<"h","o","m","e">> >>

WorkspacePrefix == <<"/","w","o","r","k","s","p","a","c","e">>
HomePrefix == <<"/","h","o","m","e","/","s","h","a","d","o","w">>

\* PurePath parsing: the names between "/", empty names and "." dropped
RECURSIVE Split(_, _, _, _)
Split(s, i, cur, acc) ==
    IF i > Len(s) \/ s[i] = "/"
    THEN IF i > Len(s)
         THEN IF cur \in {<<>>, <<".">>} THEN acc ELSE Append(acc, cur)
         ELSE Split(s, i + 1, <<>>,
                    IF cur \in {<<>>, <<".">>} THEN acc ELSE Append(acc, cur))
    ELSE Split(s, i + 1, Append(cur, s[i]), acc)

\* base / rel: an absolute rel replaces base
Join(base, rel) ==
    IF rel # <<>> /\ rel[1] = "/" THEN Split(rel, 1, <<>>, <<>>)
    ELSE base \o Split(rel, 1, <<>>, <<>>)

\* the file the operating system opens for a path: ".." steps up
RECURSIVE Resolve(_, _, _)
Resolve(names, i, acc) ==
    IF i > Len(names) THEN acc
    ELSE IF names[i] = <<".", ".">>
    THEN Resolve(names, i + 1, IF acc = <<>> THEN acc ELSE SubSeq(acc, 1, Len(acc) - 1))
    ELSE Resolve(names, i + 1, Append(acc, names[i]))

\* lines 181-186 and 216-221: the container path mapped to a host path;
\* ok = FALSE stands for the ValueError
sandbox_to_host(sandbox_path) ==
    IF StartsWith(sandbox_path, WorkspacePrefix)
    THEN [ok |-> TRUE,
          path |-> Join(workspace_dir, Drop(sandbox_path, Len(WorkspacePrefix) + 1))]
    ELSE IF StartsWith(sandbox_path, HomePrefix)
    THEN [ok |-> TRUE,
          path |-> Join(home_dir, Drop(sandbox_path, Len(HomePrefix) + 1))]
    ELSE [ok |-> FALSE, path |-> <<>>]

\* the path of a host file relative to the workspace directory
InWorkspace(host) == StartsWith(host, workspace_dir)
Rel(host) == Drop(host, Len(workspace_dir))

IsDir(rel) == \E f \in DOMAIN workspace : Len(f) > Len(rel) /\ StartsWith(f, rel)

\* Path.exists of a host path; outside the workspace anything may be there
Exists(host, found) ==
    IF InWorkspace(host) THEN Rel(host) \in DOMAIN workspace \/ IsDir(Rel(host))
    ELSE found

SandboxPaths ==
    { <<"/","w","o","r","k","s","p","a","c","e","/","f">>,
      <<"/","w","o","r","k","s","p","a","c","e","/","d","/","g">>,
      <<"/","w","o","r","k","s","p","a","c","e">>,
      <<"/","h","o","m","e","/","s","h","a","d","o","w","/","f">>,
      <<"/","i","n","v","a","l","i","d","/","f">>,
      <<"/","w","o","r","k","s","p","a","c","e","x","/","f">>,
      <<"/","w","o","r","k","s","p","a","c","e","/",".",".","/","f">> }

Contents == {1, 2}

\* lines 169-201
Extract(sandbox_path) ==
    LET m == sandbox_to_host(sandbox_path)
        host == Resolve(m.path, 1, <<>>)
    IN  /\ call.pc = "done"
        /\ \E found \in BOOLEAN :
              call' = [op |-> "extract", pc |-> "done", sandbox_path |-> sandbox_path,
                       outcome |-> IF ~m.ok THEN "ValueError"
                                   ELSE IF ~Exists(host, found) THEN "FileNotFoundError"
                                   ELSE "ok",
                       host |-> host]
        /\ UNCHANGED <<workspace, _baseline_hashes, gitea, procs>>
        /\ UNCHANGED manager

\* lines 203-228: the host file, named f, is copied to the mapped path, or
\* into it when that is a directory
Inject(sandbox_path, content) ==
    LET m == sandbox_to_host(sandbox_path)
        dest == Resolve(m.path, 1, <<>>)
        host == IF InWorkspace(dest) /\ (IsDir(Rel(dest)) \/ Rel(dest) = <<>>)
                THEN Append(dest, <<"f">>) ELSE dest
    IN  /\ call.pc = "done"
        /\ \E found \in BOOLEAN :
              /\ call' = [op |-> "inject", pc |-> "done", sandbox_path |-> sandbox_path,
                          outcome |-> IF ~found THEN "FileNotFoundError"
                                      ELSE IF ~m.ok THEN "ValueError" ELSE "ok",
                          host |-> host]
              /\ workspace' = IF found /\ m.ok /\ InWorkspace(host)
                              THEN With(workspace, Rel(host), content)
                              ELSE workspace
        /\ UNCHANGED <<_baseline_hashes, gitea, procs>>
        /\ UNCHANGED manager

\* ---------------------------- ShadowEnvironment.snapshot_baseline, diff
\* the files there can be in the workspace, relative to it: f and d/g
Files == { << <<"f">> >>, << <<"d">>, <<"g">> >> }

\* a command run in the container writes a workspace file, or deletes one
WriteFile(f, content) ==
    /\ call.pc = "done"
    /\ workspace' = With(workspace, f, content)
    /\ call' = [op |-> "command", pc |-> "done", outcome |-> "ok"]
    /\ UNCHANGED <<_baseline_hashes, gitea, procs>>
    /\ UNCHANGED manager

DeleteFile(f) ==
    /\ call.pc = "done"
    /\ f \in DOMAIN workspace
    /\ workspace' = Without(workspace, f)
    /\ call' = [op |-> "command", pc |-> "done", outcome |-> "ok"]
    /\ UNCHANGED <<_baseline_hashes, gitea, procs>>
    /\ UNCHANGED manager

\* a digest that tells no two contents apart
_hash_file_blind(content) == <<"md5", 0>>

\* lines 99-109: the MD5 digest of a readable file
_hash_file(content) == <<"md5", content>>

\* base_path.rglob("*") with is_file(): the files below the directory rel,
\* each with its digest (lines 130-134)
current_files(rel) ==
    [f \in { g \in DOMAIN workspace : Len(g) > Len(rel) /\ StartsWith(g, rel) } |->
        _hash_file(workspace[f])]

\* lines 86-97
snapshot_baseline ==
    /\ call.pc = "done"
    /\ _baseline_hashes' = current_files(<<>>)
    /\ call' = [op |-> "snapshot_baseline", pc |-> "done", outcome |-> "ok"]
    /\ UNCHANGED <<workspace, gitea, procs>>
    /\ UNCHANGED manager

\* path.lstrip("/")
RECURSIVE lstrip(_)
lstrip(path) == IF path # <<>> /\ path[1] = "/" THEN lstrip(Tail(path)) ELSE path

\* lines 136-165: the three loops over baseline and current paths
compare(current) ==
    { [path |-> f, change_type |-> "added"] : f \in DOMAIN current \ DOMAIN _baseline_hashes }
    \cup { [path |-> f, change_type |-> "deleted"] : f \in DOMAIN _baseline_hashes \ DOMAIN current }
    \cup { [path |-> f, change_type |-> "modified"] :
              f \in { g \in DOMAIN _baseline_hashes \cap DOMAIN current :
                        _baseline_hashes[g] # current[g] } }

\* lines 111-167; path None is the call without a path.  An entry's path
\* is relative to /workspace.
diff(path) ==
    IF path # None /\ ~Exists(Join(workspace_dir, lstrip(path)), FALSE) THEN {}
    ELSE compare(current_files(IF path = None THEN <<>>
                               ELSE Rel(Join(workspace_dir, lstrip(path)))))

\* no path, the directory d (written d and /d), a directory that is not there
DiffPaths == { None, <<"d">>, <<"/","d">>, <<"x">> }

Diff(path) ==
    /\ call.pc = "done"
    /\ call' = [op |-> "diff", pc |-> "done", outcome |-> "ok", path |-> path,
                changed |-> diff(path)]
    /\ UNCHANGED <<workspace, _baseline_hashes, gitea, procs>>
    /\ UNCHANGED manager

\* ------------------------------------------------ GiteaClient.wait_ready
\* The container's entrypoint starts the forge, then creates the admin
\* user: "starting" (nothing answers), "api" (the version endpoint answers),
\* "ready" (the admin user exists too).
GiteaStarts ==
    /\ gitea # "ready"
    /\ gitea' = IF gitea = "starting" THEN "api" ELSE "ready"
    /\ UNCHANGED <<workspace, _baseline_hashes, procs, call>>
    /\ UNCHANGED manager

\* curl -s .../api/v1/version and curl -s -u ... /api/v1/user: the exit
\* status, and whether the text looked for is in the output
curl_version == [code |-> IF gitea = "starting" THEN 7 ELSE 0,
                 found |-> gitea # "starting"]
curl_user == [code |-> IF gitea = "starting" THEN 7 ELSE 0,
              found |-> gitea = "ready"]

\* line 57, negated
version_answered(r) == ~(r.code # 0 \/ ~r.found)

\* a test of the exit status alone
admin_found_by_exit_status(r) == r.code = 0

\* line 66
admin_found(r) == r.code = 0 /\ r.found

\* a sleep during which the clock does not advance
sleep_no_time(elapsed) == elapsed

\* lines 58 and 69: asyncio.sleep(0.5); the next reading of the clock is later
sleep(elapsed) == elapsed + 1

WaitReadyCall ==
    /\ call.pc = "done"
    /\ call' = [op |-> "wait_ready", pc |-> "top", outcome |-> "", elapsed |-> 0,
                version |-> "", user |-> ""]
    /\ UNCHANGED <<workspace, _baseline_hashes, gitea, procs>>
    /\ UNCHANGED manager

\* one await of the loop, lines 45-69: the timeout test and the version
\* call; then the user call.  elapsed counts the sleeps; version and user
\* keep what the forge was when the poll's two calls were made.
WaitReadyVersion ==
    /\ call.op = "wait_ready" /\ call.pc = "top"
    /\ call' = IF call.elapsed >= MaxPolls
               THEN [call EXCEPT !.pc = "done", !.outcome = "GiteaTimeoutError"]
               ELSE IF version_answered(curl_version)
               THEN [call EXCEPT !.pc = "user", !.version = gitea, !.user = ""]
               ELSE [call EXCEPT !.elapsed = sleep(@), !.version = gitea, !.user = ""]
    /\ UNCHANGED <<workspace, _baseline_hashes, gitea, procs>>
    /\ UNCHANGED manager

WaitReadyUser ==
    /\ call.op = "wait_ready" /\ call.pc = "user"
    /\ call' = IF admin_found(curl_user)
               THEN [call EXCEPT !.pc = "done", !.outcome = "ok", !.user = gitea]
               ELSE [call EXCEPT !.pc = "top", !.elapsed = sleep(@), !.user = gitea]
    /\ UNCHANGED <<workspace, _baseline_hashes, gitea, procs>>
    /\ UNCHANGED manager

\* -------------------------------------- GiteaClient.setup_repo_from_bundle
\* lines 71-80: the status is compared and the result returned; nothing raises
create_org(status) == status = 201

\* line 90
create_repo_raises(status) == status \notin {200, 201}

\* lines 118-127, with the HTTP status of the two API calls and the exit
\* status of the push as the forge gives them; carries: what the GiteaError
\* holds (its message, which quotes the response body)
SetupRepoFromBundle(org_status, repo_status, push_code) ==
    /\ call.pc = "done"
    /\ call' = [op |-> "setup_repo_from_bundle", pc |-> "done",
                org_status |-> org_status, org_created |-> create_org(org_status),
                repo_status |-> repo_status,
                pushed |-> ~create_repo_raises(repo_status),
                outcome |-> IF create_repo_raises(repo_status) \/ push_code # 0
                            THEN "GiteaError" ELSE "ok",
                carries |-> IF create_repo_raises(repo_status) THEN {"message", "body"}
                            ELSE IF push_code # 0 THEN {"message", "stdout", "stderr"}
                            ELSE {}]
    /\ UNCHANGED <<workspace, _baseline_hashes, gitea, procs>>
    /\ UNCHANGED manager

\* ------------------------------------------------ ContainerRuntime.exec
Pids == {1, 2}

\* lines 154-161: the docker exec child process is started
ExecStart ==
    /\ call.pc = "done"
    /\ \E pid \in Pids \ procs :
          /\ procs' = procs \cup {pid}
          /\ call' = [op |-> "exec", pc |-> "communicate", outcome |-> "", pid |-> pid]
    /\ UNCHANGED <<workspace, _baseline_hashes, gitea>>
    /\ UNCHANGED manager

\* lines 162-166: the child ends and its exit status is returned
ExecReturns ==
    /\ call.op = "exec" /\ call.pc = "communicate"
    /\ procs' = procs \ {call.pid}
    /\ \E code \in {0, 1} : call' = [call EXCEPT !.pc = "done",
                                       !.outcome = IF code = 0 THEN "ok" ELSE "failed"]
    /\ UNCHANGED <<workspace, _baseline_hashes, gitea>>
    /\ UNCHANGED manager

\* lines 162-169: wait_for gives up and cancels communicate(), or the task
\* awaiting exec is cancelled; nothing signals the child
ExecGivesUp ==
    /\ call.op = "exec" /\ call.pc = "communicate"
    /\ \E e \in {"TimeoutError", "CancelledError"} :
          call' = [call EXCEPT !.pc = "done", !.outcome = e]
    /\ UNCHANGED <<workspace, _baseline_hashes, gitea, procs>>
    /\ UNCHANGED manager

\* a child nobody waits for ends by itself
ChildExits ==
    /\ \E pid \in procs :
          /\ ~(call.op = "exec" /\ call.pc = "communicate" /\ call.pid = pid)
          /\ procs' = procs \ {pid}
    /\ UNCHANGED <<workspace, _baseline_hashes, gitea, call>>
    /\ UNCHANGED manager

\* ------------------------------------------------- the parts' behaviours
\* ShadowEnvironment on a workspace
EnvironmentNext ==
    \/ \E sandbox_path \in SandboxPaths : Extract(sandbox_path)
    \/ \E sandbox_path \in SandboxPaths, content \in Contents : Inject(sandbox_path, content)
    \/ \E f \in Files, content \in Contents : WriteFile(f, content)
    \/ \E f \in Files : DeleteFile(f)
    \/ snapshot_baseline
    \/ \E path \in DiffPaths : Diff(path)

EnvironmentSpec == Init /\ [][EnvironmentNext]_vars

\* GiteaClient and ContainerRuntime.exec on a container
RuntimeNext ==
    \/ GiteaStarts
    \/ WaitReadyCall
    \/ WaitReadyVersion
    \/ WaitReadyUser
    \/ \E org_status \in {201, 422, 500}, repo_status \in {201, 409, 500},
          push_code \in {0, 1} : SetupRepoFromBundle(org_status, repo_status, push_code)
    \/ ExecStart
    \/ ExecReturns
    \/ ExecGivesUp
    \/ ChildExits

RuntimeSpec == Init /\ [][RuntimeNext]_vars

\* ---------------------------------------------------------------- claims

\* C1: when create fails in its setup steps (waiting for the forge,
\* provisioning and pushing, installing and verifying the rewrite rules,
\* persisting metadata, baseline, cache insertion), the container has been
\* force-removed and the shadow's directory deleted when the error reaches
\* the caller.
C1_SetupFailureCleansUp ==
    \A t \in Tasks :
        (result[t].op = "create" /\ result[t].outcome \in {"SetupFailed", "OSError"})
            => /\ result[t].shadow_id \notin dirs
               /\ containers[result[t].shadow_id] = "none"

\* C2: when create is cancelled at any step after it started working, the
\* shadow's container has been force-removed and its directory deleted by
\* the time the call returns.
C2_CancelCleansUp ==
    \A t \in Tasks :
        (result[t].op = "create" /\ result[t].outcome = "Cancelled"
                                 /\ result[t].step # "c_exists")
            => /\ result[t].shadow_id \notin dirs
               /\ containers[result[t].shadow_id] = "none"

\* C3: a create whose local source does not parse, or whose path is not a
\* git repository, surfaces the error with no side effect: no directory
\* remains and no container was started.
C3_InvalidInputNoSideEffect ==
    \A t \in Tasks :
        (result[t].op = "create" /\ result[t].outcome = "InvalidInput")
            => /\ result[t].shadow_id \notin dirs
               /\ containers[result[t].shadow_id] = "none"

\* C4: create with a name whose directory or whose container exists fails
\* with AlreadyExists: it goes no further than the test that finds it, and
\* the step that rejects it leaves directory, snapshots, metadata,
\* container and cache as they were.
C4_AlreadyExistsUntouched ==
    [][\A t \in Tasks :
          /\ (task[t].pc = "idle" /\ task'[t].pc = "c_exists")
                => task'[t].shadow_id \notin dirs
          /\ (task[t].pc = "c_exists" /\ containers[task[t].shadow_id] # "none")
                => /\ task'[t].pc \in {"c_exists", "idle"}
                   /\ task'[t].pc = "idle"
                         => result'[t].outcome \in {"AlreadyExists", "Cancelled"}
          /\ (result'[t] # result[t] /\ result'[t].outcome = "AlreadyExists")
                => /\ \/ result'[t].shadow_id \in dirs
                      \/ containers[result'[t].shadow_id] # "none"
                   /\ UNCHANGED <<dirs, bundles, metadata, containers, forge,
                                  gitconfig, environments>>
      ]_vars

\* C4: a create was rejected while the shadow of that name is there, cached
C4_Rejected ==
    \E t \in Tasks :
        /\ result[t].op = "create" /\ result[t].outcome = "AlreadyExists"
        /\ result[t].step = "dir"
        /\ result[t].shadow_id \in DOMAIN environments
        /\ containers[result[t].shadow_id] = "running"

C7_BatchSteps ==
    \A t \in Tasks :
        (result[t].op = "exec_batch" /\ result[t].outcome \in {"ok", "BatchFailed"}) =>
            LET r == result[t]
                n == Len(r.steps)
                failing == { k \in 1..n : r.steps[k].exit_code # 0 }
            IN  /\ n <= Len(r.commands)
                /\ \A k \in 1..n : r.steps[k].command = r.commands[k]
                /\ Len(executed) <= n
                /\ \A k \in 1..Len(executed) : executed[k] = <<r.shadow_id, r.commands[k]>>
                /\ r.success <=> failing = {}
                /\ r.success <=> r.outcome = "ok"
                /\ r.fail_fast =>
                      IF failing = {} THEN n = Len(r.commands) /\ r.failed_at = -1
                      ELSE failing = {n} /\ r.failed_at = n - 1
                /\ ~r.fail_fast => n = Len(r.commands) /\ r.failed_at = -1

\* C7: a fail_fast batch stopped at its first command, leaving the next unrun
C7_StoppedEarly ==
    \E t \in Tasks :
        /\ result[t].op = "exec_batch" /\ result[t].fail_fast
        /\ result[t].failed_at = 0
        /\ Len(result[t].commands) = 2
        /\ executed = <<<<result[t].shadow_id, 1>>>>

\* C8: exec and exec_batch on a shadow whose container is missing or not
\* running go no further than the test, return the error that says so and
\* execute no command.
C8_NotRunningNoExec ==
    [][\A t \in Tasks :
          /\ (task[t].pc = "idle" /\ task'[t].pc \in {"exec", "exec_batch"})
                => containers[task'[t].shadow_id] = "running"
          /\ (result'[t] # result[t] /\ result'[t].op \in {"exec", "exec_batch"}
                /\ result'[t].outcome = "ContainerNotRunning")
                => /\ containers[result'[t].shadow_id] # "running"
                   /\ executed' = <<>>
                   /\ ~result'[t].success
                   /\ result'[t].steps = <<>>
      ]_vars

\* C8: exec_batch on a shadow whose container is gone returned the error
C8_Refused ==
    \E t \in Tasks :
        /\ result[t].op = "exec_batch"
        /\ result[t].outcome = "ContainerNotRunning"
        /\ result[t].shadow_id \in dirs
        /\ containers[result[t].shadow_id] = "none"
        /\ executed = <<>>

\* C9: add_source of well-formed sources on an existing shadow is rejected
\* if and only if a spec with the same org and name is already present.
C9_RejectedIffPresent ==
    \A t \in Tasks :
        (result[t].op = "add_source" /\ result[t].pre \in {"present", "absent"})
            => (result[t].outcome # "ok" <=> result[t].pre = "present")

SimilarUrls(key) ==
    { Pattern(prefix, key[1], key[2] \o <<"s">>, suffix) :
          prefix \in {HttpsPrefix, SshScp, SshUrl, GitPlus \o HttpsPrefix,
                      GitPlus \o SshUrl},
          suffix \in {<<>>, DotGit, <<"@","m">>} }

\* C11: no rewrite pattern installed for a spec org/name is a prefix of a
\* URL of a different repository whose name begins with name: the rules of
\* a/r leave the URLs of a/rs alone.
C11_NoPrefixOfSimilarRepo ==
    \A id \in Ids : \A key \in gitconfig[id] : \A rule \in rules_of(key) :
        \A url \in SimilarUrls(key) : ~StartsWith(url, rule.insteadOf)

\* a pattern that ends with one of the boundary markers .git, / and @
HasBoundary(p) == EndsWith(p, DotGit) \/ EndsWith(p, <<"/">>) \/ EndsWith(p, <<"@">>)

C13_VerifiedRulesInstalled ==
    [][\A t \in Tasks :
          (task[t].pc = "c_rewrite" /\ result'[t].op = "create"
              /\ result'[t].outcome = "ok")
          => Keys(task[t].repo_specs) \subseteq gitconfig'[task[t].shadow_id]]_vars

\* C14: extract and inject read or write a host file only for a container
\* path that is /workspace or below it, and that host file lies inside the
\* shadow's workspace directory.
C14_OnlyWorkspacePaths ==
    (call.op \in {"extract", "inject"} /\ call.outcome = "ok")
        => /\ \/ call.sandbox_path = WorkspacePrefix
              \/ StartsWith(call.sandbox_path, WorkspacePrefix \o <<"/">>)
           /\ StartsWith(call.host, workspace_dir)

C17_ForgeErrorStopsProvisioning ==
    (/\ call.op = "setup_repo_from_bundle"
     /\ \/ call.org_status \notin {200, 201, 422}
        \/ call.repo_status \notin {200, 201})
        => /\ call.outcome = "GiteaError"
           /\ ~call.pushed
           /\ {"endpoint", "status", "body"} \subseteq call.carries

\* C18: once exec has returned or raised, the child process it started is
\* not running any more.
C18_NoChildLeftRunning ==
    (call.op = "exec" /\ call.pc = "done") => call.pid \notin procs

\* what became of the file f since the baseline was taken
ChangeOf(f) ==
    IF f \in DOMAIN workspace /\ f \notin DOMAIN _baseline_hashes THEN "added"
    ELSE IF f \notin DOMAIN workspace /\ f \in DOMAIN _baseline_hashes THEN "deleted"
    ELSE IF f \in DOMAIN workspace /\ _baseline_hashes[f][2] # workspace[f] THEN "modified"
    ELSE "unchanged"

C20_DiffOfSubtree ==
    (call.op = "diff" /\ call.path # None)
        => call.changed =
              { [path |-> f, change_type |-> ChangeOf(f)] :
                   f \in { g \in Files : /\ ChangeOf(g) # "unchanged"
                                         /\ StartsWith(g, Split(call.path, 1, <<>>, <<>>)) } }

\* C15: metadata.json holds the names of the variables passed to the
\* container, never a value: what create writes is given by the names
\* alone, so two runs that differ in the values write the same content,
\* and add_source adds no value.
C15_MetadataNamesOnly ==
    [][\A id \in DOMAIN metadata' :
          /\ metadata'[id].env_vars_passed \subseteq
                 {"UV_NO_GITHUB_FAST_PATH", "ANTHROPIC_API_KEY"}
          /\ \A t \in Tasks :
                (task[t].pc = "c_rewrite" /\ task[t].shadow_id = id
                    /\ result'[t].outcome = "ok")
                => metadata'[id] =
                      [local_sources |->
                           [k \in DOMAIN task[t].repo_specs |->
                               [repo |-> task[t].repo_specs[k].org \o <<"/">>
                                             \o task[t].repo_specs[k].name,
                                local_path |-> task[t].repo_specs[k].local_path,
                                snapshot_commit |-> task[t].repo_specs[k].snapshot_commit]],
                       image |-> "amplifier-shadow:local",
                       env_vars_passed |-> {"UV_NO_GITHUB_FAST_PATH"}
                                              \cup DOMAIN task[t].env]]_vars

\* the metadata of a shadow created with a key passed names the key
C15_KeyNamed ==
    \E t \in Tasks :
        /\ result[t].op = "create" /\ result[t].outcome = "ok"
        /\ result[t].shadow_id \in DOMAIN metadata
        /\ "ANTHROPIC_API_KEY" \in metadata[result[t].shadow_id].env_vars_passed

\* C21: the handle get() answers with, cached or rebuilt from
\* metadata.json, has the sources create gave its handle, in the same
\* order: the same org, name, local_path and snapshot_commit as create
\* recorded for each.
C21_RebuiltHandleSameSources ==
    \A id \in DOMAIN environments \cap DOMAIN metadata :
        /\ Len(environments[id].repos) = Len(metadata[id].local_sources)
        /\ \A k \in DOMAIN environments[id].repos :
              /\ environments[id].repos[k].org \o <<"/">> \o environments[id].repos[k].name
                     = metadata[id].local_sources[k].repo
              /\ environments[id].repos[k].local_path
                     = metadata[id].local_sources[k].local_path
              /\ environments[id].repos[k].snapshot_commit
                     = metadata[id].local_sources[k].snapshot_commit

\* ===================================================================
\* ShadowTool: the verdicts the tool computes around the manager's calls
\* ===================================================================

\* commit hashes, shortened to eight digits: the first two agree on seven
Hashes == { <<"a","b","c","d","e","f","0","1">>,
            <<"a","b","c","d","e","f","0","2">>,
            <<"b","b","c","d","e","f","0","1">> }

\* s[:n]
Take(s, n) == SubSeq(s, 1, IF Len(s) < n THEN Len(s) ELSE n)

\* stdout.strip() of what git log prints: the line without its newline
strip(s) == IF s # <<>> /\ s[Len(s)] = "\n" THEN SubSeq(s, 1, Len(s) - 1) ELSE s

\* what the clone command can print: a hash and a newline, or nothing
Stdouts == { h \o <<"\n">> : h \in Hashes } \cup { <<>> }

\* env.repos of the handle create returned, as (full_name, snapshot_commit)
VerifiedRepos ==
    { <<>> } \cup { << <<"a/r", h>> >> : h \in Hashes }
             \cup { << <<"a/r", h>>, <<"a/s", g>> >> : h, g \in Hashes }

\* {r.full_name: r.snapshot_commit for r in env.repos if r.snapshot_commit}
snapshot_commits(repos) == SelectSeq(repos, LAMBDA r : r[2] # None)

_run_smoke_test_whole_hash(commits, raises, exit_code, stdout) ==
    IF commits = <<>> \/ raises \/ exit_code # 0 THEN "FAILED"
    ELSE IF strip(stdout) = commits[1][2] THEN "PASSED" ELSE "FAILED"

_run_smoke_test(commits, raises, exit_code, stdout) ==
    IF commits = <<>> THEN "FAILED"
    ELSE IF raises THEN "FAILED"
    ELSE IF exit_code # 0 THEN "FAILED"
    ELSE IF Take(strip(stdout), 7) = Take(commits[1][2], 7) THEN "PASSED"
    ELSE "FAILED"

\* the end of ShadowTool._create, after manager.create returned the handle
CreateVerify(verify, repos, raises, exit_code, stdout) ==
    /\ call.pc = "done"
    /\ call' = [op |-> "create", pc |-> "done", outcome |-> "ok",
                verify |-> verify, repos |-> repos, raises |-> raises,
                exit_code |-> exit_code, stdout |-> stdout,
                verification |->
                    IF verify /\ repos # <<>>
                    THEN _run_smoke_test(snapshot_commits(repos), raises,
                                         exit_code, stdout)
                    ELSE "",
                ready |->
                    IF verify /\ repos # <<>>
                    THEN _run_smoke_test(snapshot_commits(repos), raises,
                                         exit_code, stdout) = "PASSED"
                    ELSE TRUE]
    /\ UNCHANGED <<workspace, _baseline_hashes, gitea, procs>>
    /\ UNCHANGED manager

\* C22: the smoke test says PASSED exactly when the clone of the first
\* provisioned repository exits 0 and the first seven digits of the HEAD
\* read back are those of the expected snapshot_commit, and FAILED in
\* every other case; create says ready exactly when the verification was
\* not run or said PASSED.
C22_SmokeTestVerdict ==
    (call.op = "create")
        => /\ call.verification \in {"", "PASSED", "FAILED"}
           /\ (call.verification = "PASSED")
                 <=> /\ call.verify /\ call.repos # <<>>
                     /\ ~call.raises /\ call.exit_code = 0
                     /\ Len(call.stdout) >= 7
                     /\ \A i \in 1..7 : call.stdout[i] = call.repos[1][2][i]
           /\ (call.verification = "FAILED")
                 <=> /\ call.verify /\ call.repos # <<>>
                     /\ call.verification # "PASSED"
           /\ call.ready <=> call.verification \in {"", "PASSED"}

\* a clone that read back a hash differing from the expected one in the
\* eighth digit only was accepted
C22_PassedOnPrefix ==
    /\ call.op = "create" /\ call.verification = "PASSED" /\ call.ready
    /\ strip(call.stdout) # call.repos[1][2]


\* ------------------------------------------ ShadowTool._preflight_pre_create
\* shutil.which for podman, then docker
runtime_of(found) == IF "podman" \in found THEN "podman"
                     ELSE IF "docker" \in found THEN "docker" ELSE ""

\* <runtime> info: running when it exits 0, not when it exits otherwise or
\* does not answer in ten seconds
daemon_running(info) == info = 0

\* <runtime> images -q <image>: there when an id is printed
image_exists(images) == images = "id"

\* the fallback of the last return: none when every counted check passed
fallback_of(images, has_api_key) ==
    IF has_api_key THEN {}
    ELSE IF ~image_exists(images)
         THEN { [reason |-> "image_not_available", mode |-> "auto_build",
                 can_create_shadow |-> TRUE] }
         ELSE { [reason |-> "no_api_keys", mode |-> "host_only",
                 can_create_shadow |-> TRUE] }

_preflight_pre_create(found, info, images, has_api_key) ==
    IF runtime_of(found) = ""
    THEN [passed |-> FALSE, checks |-> 1,
          fallback |-> { [reason |-> "container_runtime_not_installed",
                          mode |-> "host_only", can_create_shadow |-> FALSE] }]
    ELSE IF ~daemon_running(info)
    THEN [passed |-> FALSE, checks |-> 2,
          fallback |-> { [reason |-> "container_daemon_not_running",
                          mode |-> "host_only", can_create_shadow |-> FALSE] }]
    ELSE [passed |-> has_api_key, checks |-> 4,
          fallback |-> fallback_of(images, has_api_key)]

PreflightPreCreate(found, info, images, has_api_key) ==
    /\ call.pc = "done"
    /\ call' = [op |-> "preflight", pc |-> "done", outcome |-> "ok",
                found |-> found, info |-> info, images |-> images,
                has_api_key |-> has_api_key,
                output |-> _preflight_pre_create(found, info, images, has_api_key)]
    /\ UNCHANGED <<workspace, _baseline_hashes, gitea, procs>>
    /\ UNCHANGED manager

ToolNext ==
    \/ \E verify, raises \in BOOLEAN, repos \in VerifiedRepos,
          exit_code \in {0, 128}, stdout \in Stdouts :
          CreateVerify(verify, repos, raises, exit_code, stdout)
    \/ \E found \in SUBSET {"podman", "docker"}, info \in {0, 1, Timeout},
          images \in {"id", "", "timeout"}, has_api_key \in BOOLEAN :
          PreflightPreCreate(found, info, images, has_api_key)

ToolSpec == Init /\ [][ToolNext]_vars

\* C23: preflight without a shadow id answers with a fallback whose
\* can_create_shadow is false when no runtime binary is found and when
\* the daemon does not answer, and with one whose can_create_shadow is
\* true when the image is the only thing missing.
C23_PreflightFallback ==
    (call.op = "preflight")
        => /\ (call.found = {} \/ call.info # 0)
                 => /\ call.output.fallback # {}
                    /\ \A f \in call.output.fallback : ~f.can_create_shadow
           /\ (call.found # {} /\ call.info = 0 /\ call.images # "id"
                  /\ call.has_api_key)
                 => /\ call.output.fallback # {}
                    /\ \A f \in call.output.fallback : f.can_create_shadow


\* C24: create with no local sources, its container running and its forge
\* ready, does not fail at the rewrite rules: the step that installs and
\* verifies them leaves no rule installed and goes on to the metadata,
\* never to the cleanup of a failed setup.
C24_NoSourcesCreates ==
    [][\A t \in Tasks :
          (/\ task[t].pc = "c_rewrite" /\ task[t].local_sources = <<>>
           /\ containers[task[t].shadow_id] = "running")
          => /\ task'[t].pc # "c_cleanup"
             /\ gitconfig'[task[t].shadow_id] = {}]_vars


\* ===================================================================
\* ShadowManager.destroy_all, over a home that holds several shadows
\* ===================================================================
HomeIds == {"a", "b"}

\* what create left for a shadow made from /p:a/r at commit 1
CreatedSpec == [parsed_local[SrcR] EXCEPT !.snapshot_commit = 1]
CreatedRepos == (RepoKey(CreatedSpec) :> 1)

\* a new manager over the home of earlier runs: the shadows in present
\* were created, the containers of those in running are still there; c is
\* the call about to be made
HomeInit(present, running, c) ==
    /\ dirs = present
    /\ bundles = [id \in HomeIds |-> IF id \in present THEN CreatedRepos ELSE Empty]
    /\ metadata = [id \in present |->
                      _write_metadata(<<CreatedSpec>>, DEFAULT_IMAGE, DEFAULT_ENV_VARS)]
    /\ containers = [id \in HomeIds |-> IF id \in running THEN "running" ELSE "none"]
    /\ forge = [id \in HomeIds |-> IF id \in running THEN CreatedRepos ELSE Empty]
    /\ gitconfig = [id \in HomeIds |->
                       IF id \in running THEN {RepoKey(CreatedSpec)} ELSE {}]
    /\ environments = Empty
    /\ head = [p \in GitRepos |-> 1]
    /\ task = [t \in Tasks |-> Idle]
    /\ result = [t \in Tasks |-> NoResult]
    /\ executed = <<>>
    /\ workspace = Empty
    /\ _baseline_hashes = Empty
    /\ gitea = "starting"
    /\ procs = {}
    /\ call = c

DestroyAllInit ==
    \E present \in SUBSET HomeIds : \E running \in SUBSET present :
        HomeInit(present, running, NoCall)

\* list(environments_dir.iterdir()): the directories, in the order the
\* file system gives them
Orders(S) == { o \in [1..Cardinality(S) -> S] :
                  \A i, j \in DOMAIN o : o[i] = o[j] => i = j }

DestroyAllCall(force) ==
    /\ call.pc = "done"
    /\ \E order \in Orders(dirs) :
          call' = [op |-> "destroy_all", pc |-> "loop", outcome |-> "",
                   force |-> force, listed |-> dirs, todo |-> order,
                   attempted |-> {}, failed |-> {}, count |-> 0]
    /\ UNCHANGED <<workspace, _baseline_hashes, gitea, procs>>
    /\ UNCHANGED manager

\* a count that takes every attempt for a destroyed shadow
counted_attempts(count, raised) == count + 1

\* lines 352-354: count += 1 follows a destroy that returned
counted(count, raised) == IF raised THEN count ELSE count + 1

\* lines 355-357: what destroy raised is raised again unless force
Iterated(id, raised, why) ==
    call' = [call EXCEPT !.todo = Tail(call.todo),
                         !.attempted = call.attempted \cup {id},
                         !.failed = IF raised THEN call.failed \cup {id}
                                    ELSE call.failed,
                         !.count = counted(call.count, raised),
                         !.pc = IF raised /\ ~call.force THEN "done" ELSE "loop",
                         !.outcome = IF raised /\ ~call.force THEN why ELSE ""]

\* one turn of the loop: destroy(shadow_dir.name, force=force)
DestroyAllStep ==
    /\ call.op = "destroy_all" /\ call.pc = "loop" /\ call.todo # <<>>
    /\ LET id == Head(call.todo)
       IN  \E raises, rmtree_raises \in BOOLEAN :
              IF remove_raised(raises, call.force)
              THEN /\ Iterated(id, TRUE, "RuntimeError")
                   /\ UNCHANGED <<dirs, bundles, metadata, containers, forge,
                                  gitconfig, environments>>
              ELSE /\ IF raises THEN UNCHANGED <<containers, forge, gitconfig>>
                      ELSE remove(id)
                   /\ environments' = Without(environments, id)
                   /\ IF rmtree_raises /\ id \in dirs
                      THEN /\ Iterated(id, TRUE, "OSError")
                           /\ UNCHANGED <<dirs, bundles, metadata>>
                      ELSE /\ Iterated(id, FALSE, "")
                           /\ rmtree(id)
    /\ UNCHANGED <<head, task, result, executed>>
    /\ UNCHANGED <<workspace, _baseline_hashes, gitea, procs>>

\* line 359: return count
DestroyAllReturn ==
    /\ call.op = "destroy_all" /\ call.pc = "loop" /\ call.todo = <<>>
    /\ call' = [call EXCEPT !.pc = "done", !.outcome = "ok"]
    /\ UNCHANGED <<workspace, _baseline_hashes, gitea, procs>>
    /\ UNCHANGED manager

DestroyAllNext ==
    \/ \E force \in BOOLEAN : DestroyAllCall(force)
    \/ DestroyAllStep
    \/ DestroyAllReturn

DestroyAllSpec == DestroyAllInit /\ [][DestroyAllNext]_vars

\* C25: destroy_all(force=True) attempts every directory it listed, raises
\* nothing, and returns the number of shadows whose directory it removed;
\* destroy_all(force=False) raises the first failure: it destroyed what it
\* attempted before, attempts nothing after, and returns only when
\* nothing failed.
C25_DestroyAll ==
    (call.op = "destroy_all" /\ call.pc = "done")
        => /\ call.force
                => /\ call.outcome = "ok"
                   /\ call.attempted = call.listed
                   /\ call.count = Cardinality(call.listed \ dirs)
           /\ ~call.force
                => /\ (call.outcome = "ok") <=> (call.failed = {})
                   /\ Cardinality(call.failed) <= 1
                   /\ (call.attempted \ call.failed) \cap dirs = {}
                   /\ (call.listed \ call.attempted) \subseteq dirs
                   /\ call.outcome = "ok"
                         => /\ call.attempted = call.listed
                            /\ call.count = Cardinality(call.listed)

\* destroy_all(force=True) returned 1 for two shadows, one of which it
\* could not delete
C25_OneOfTwoDestroyed ==
    /\ call.op = "destroy_all" /\ call.pc = "done" /\ call.force
    /\ call.listed = {"a", "b"} /\ call.count = 1
    /\ Cardinality(dirs) = 1


\* ===================================================================
\* ContainerRuntime.run: the command line of a container start
\* ===================================================================
Mount(host_path, container_path, readonly) ==
    [host_path |-> host_path, container_path |-> container_path,
     readonly |-> readonly]

to_arg(m) == m.host_path \o ":" \o m.container_path \o ":"
                 \o (IF m.readonly THEN "ro" ELSE "rw")

\* -v <mount> for each mount, -e <key>=<value> for each variable
RECURSIVE mount_args(_, _)
mount_args(mounts, i) ==
    IF i > Len(mounts) THEN <<>>
    ELSE <<"-v", to_arg(mounts[i])>> \o mount_args(mounts, i + 1)

RECURSIVE env_args(_, _)
env_args(env, i) ==
    IF i > Len(env) THEN <<>>
    ELSE <<"-e", env[i][1] \o "=" \o env[i][2]>> \o env_args(env, i + 1)

\* the argument vector handed to create_subprocess_exec
run(image, name, mounts, env, command, detach, remove_on_exit, memory_limit, pids_limit) ==
    <<"podman", "run">>
        \o (IF detach THEN <<"-d">> ELSE <<>>)
        \o (IF remove_on_exit THEN <<"--rm">> ELSE <<>>)
        \o <<"--cap-drop=ALL", "--security-opt=no-new-privileges",
             "--memory=" \o memory_limit,
             "--pids-limit=" \o ToString(pids_limit)>>
        \o <<"--name", name>>
        \o mount_args(mounts, 1)
        \o env_args(env, 1)
        \o <<image>>
        \o command

\* how the runtime reads "run [OPTIONS] IMAGE [COMMAND]": options up to
\* the first word that does not begin with a dash, --name, -v and -e
\* taking the word after them
Words == {DEFAULT_IMAGE, "sleep"}
RECURSIVE options(_, _, _)
options(args, i, acc) ==
    IF i > Len(args) THEN acc
    ELSE IF args[i] \in {"--name", "-v", "-e"}
    THEN options(args, i + 2,
                 acc \cup { <<args[i], IF i < Len(args) THEN args[i + 1] ELSE "">> })
    ELSE IF args[i] \in Words THEN acc
    ELSE options(args, i + 1, acc \cup { <<args[i], "">> })

\* the image the runtime starts: the first word that is not an option,
\* none when the line ends before one
RECURSIVE image_of(_, _)
image_of(args, i) ==
    IF i > Len(args) THEN ""
    ELSE IF args[i] \in {"--name", "-v", "-e"} THEN image_of(args, i + 2)
    ELSE IF args[i] \in Words THEN args[i]
    ELSE image_of(args, i + 1)

\* a start with the snapshots writable
create_mounts_writable(id) ==
    << Mount("/h/" \o id \o "/snapshots", "/snapshots", FALSE),
       Mount("/h/" \o id \o "/workspace", "/workspace", FALSE) >>

\* manager.py 132-136, the home of the shadows being /h
create_mounts(id) ==
    << Mount("/h/" \o id \o "/snapshots", "/snapshots", TRUE),
       Mount("/h/" \o id \o "/workspace", "/workspace", FALSE) >>

\* manager.py 141-148: the start of the container of create
CreateRuns(id, image, key) ==
    /\ call.pc = "done"
    /\ call' = [op |-> "run", pc |-> "done", outcome |-> "ok", by |-> "create",
                shadow_id |-> id, memory_limit |-> "4g", pids_limit |-> 256,
                args |-> run(image, "shadow-" \o id, create_mounts(id),
                             << <<"UV_NO_GITHUB_FAST_PATH", "1">> >>
                                 \o (IF key THEN << <<"ANTHROPIC_API_KEY", "sk-1">> >>
                                     ELSE <<>>),
                             <<>>, TRUE, FALSE, "4g", 256)]
    /\ UNCHANGED <<workspace, _baseline_hashes, gitea, procs>>
    /\ UNCHANGED manager

\* any caller of the adapter
Run(image, name, command, detach, remove_on_exit, memory_limit, pids_limit) ==
    /\ call.pc = "done"
    /\ call' = [op |-> "run", pc |-> "done", outcome |-> "ok", by |-> "caller",
                shadow_id |-> "", memory_limit |-> memory_limit,
                pids_limit |-> pids_limit,
                args |-> run(image, name, <<>>, <<>>, command, detach,
                             remove_on_exit, memory_limit, pids_limit)]
    /\ UNCHANGED <<workspace, _baseline_hashes, gitea, procs>>
    /\ UNCHANGED manager

\* gitea.py 98-116: the shell command of push_bundle, as the paths in the
\* container it reads and the ones it creates, changes or deletes
PushBundle(id, org, name) ==
    /\ call.pc = "done"
    /\ call' = [op |-> "push_bundle", pc |-> "done", outcome |-> "ok",
                shadow_id |-> id,
                reads |-> { <<"snapshots", org, name \o ".bundle">> },
                writes |-> { <<"tmp", "_push_" \o name>> }]
    /\ UNCHANGED <<workspace, _baseline_hashes, gitea, procs>>
    /\ UNCHANGED manager

ContainerNext ==
    \/ \E id \in HomeIds, image \in {DEFAULT_IMAGE, "img:2"}, key \in BOOLEAN :
          CreateRuns(id, image, key)
    \/ \E image \in {DEFAULT_IMAGE, "--privileged"},
          name \in {"shadow-a", "--privileged"},
          command \in {<<>>, <<"sleep">>, <<DEFAULT_IMAGE>>},
          detach, remove_on_exit \in BOOLEAN,
          memory_limit \in {"4g", "8g"}, pids_limit \in {256, 128} :
          Run(image, name, command, detach, remove_on_exit, memory_limit, pids_limit)
    \/ \E id \in HomeIds, name \in {"r", "rs"} : PushBundle(id, "a", name)

ContainerSpec == Init /\ [][ContainerNext]_vars

\* C26: the container create starts has two mounts and no more, the
\* snapshots directory of the shadow read-only at /snapshots and its
\* workspace directory read-write at /workspace; and the command that
\* takes a bundle into the forge writes nothing under /snapshots.
C26_TwoMountsSnapshotsReadOnly ==
    /\ (call.op = "run" /\ call.by = "create")
          => { o \in options(call.args, 3, {}) : o[1] = "-v" }
                = { <<"-v", "/h/" \o call.shadow_id \o "/snapshots:/snapshots:ro">>,
                    <<"-v", "/h/" \o call.shadow_id \o "/workspace:/workspace:rw">> }
    /\ (call.op = "push_bundle")
          => \A w \in call.writes : w[1] # "snapshots"

\* create started the container of shadow b
C26_ContainerStarted ==
    /\ call.op = "run" /\ call.by = "create" /\ call.shadow_id = "b"
    /\ <<"--name", "shadow-b">> \in options(call.args, 3, {})

\* C27: every start of a container through run, whatever its arguments,
\* drops all capabilities, sets no-new-privileges, a memory limit and a
\* process-count limit, and is not a privileged one.
C27_SecurityFloor ==
    (call.op = "run" /\ image_of(call.args, 3) = "amplifier-shadow:local")
        => /\ <<"--cap-drop=ALL", "">> \in options(call.args, 3, {})
           /\ <<"--security-opt=no-new-privileges", "">> \in options(call.args, 3, {})
           /\ <<"--memory=" \o call.memory_limit, "">> \in options(call.args, 3, {})
           /\ <<"--pids-limit=" \o ToString(call.pids_limit), "">>
                 \in options(call.args, 3, {})
           /\ <<"--privileged", "">> \notin options(call.args, 3, {})


\* ===================================================================
\* SnapshotManager.create_snapshot: what a bundle holds
\* ===================================================================
\* the files of HEAD, and one file git does not know
HeadFiles == [p \in { <<"f">>, <<"d", "g">>, <<"d", "k">>, <<"e", "h">> } |-> 1]
Untracked == <<"u">>

\* a working tree: the content of its files, and its directories
WorkTrees ==
    { [files |-> fs, dirs |-> ds] :
        fs \in UNION { [S -> Contents] : S \in SUBSET (DOMAIN HeadFiles \cup {Untracked}) },
        ds \in SUBSET {"d", "e"} }

\* a file lies in a directory that is there, and git knows no other content
\* of an untracked file than the one it has
IsWorkTree(w) ==
    /\ \A p \in DOMAIN w.files : Len(p) = 2 => p[1] \in w.dirs
    /\ Untracked \in DOMAIN w.files => w.files[Untracked] = 1

\* git status --porcelain prints something
has_uncommitted_changes(w) == w.files # HeadFiles

\* repo_path.iterdir(): the names at the top of the tree
iterdir(w) == { p[1] : p \in DOMAIN w.files } \cup w.dirs

\* lines 143-209: the clone of HEAD, each item at the top of the working
\* tree put in place of the clone's item of that name, then git add -A
\* and a commit
_create_snapshot_with_changes(w) ==
    [p \in { q \in DOMAIN HeadFiles : q[1] \notin iterdir(w) } \cup DOMAIN w.files |->
        IF p \in DOMAIN w.files THEN w.files[p] ELSE HeadFiles[p]]

\* lines 45-89
create_snapshot(w) ==
    IF has_uncommitted_changes(w) THEN _create_snapshot_with_changes(w)
    ELSE HeadFiles

CreateSnapshotOf(w) ==
    /\ call.pc = "done"
    /\ call' = [op |-> "create_snapshot", pc |-> "done", outcome |-> "ok",
                files |-> w.files, dirs |-> w.dirs,
                has_uncommitted |-> has_uncommitted_changes(w),
                snapshot |-> create_snapshot(w)]
    /\ UNCHANGED <<workspace, _baseline_hashes, gitea, procs>>
    /\ UNCHANGED manager

SnapshotNext == \E w \in { v \in WorkTrees : IsWorkTree(v) } : CreateSnapshotOf(w)

SnapshotSpec == Init /\ [][SnapshotNext]_vars

\* C28: a file of HEAD that the working tree no longer has, its deletion
\* not staged, is in the snapshot all the same, be it at the top of the
\* tree or in a directory.
C28_DeletedFileStays ==
    (call.op = "create_snapshot")
        => \A p \in { <<"f">>, <<"d", "g">>, <<"d", "k">>, <<"e", "h">> } :
              p \notin DOMAIN call.files => p \in DOMAIN call.snapshot


\* ===================================================================
\* RepoSpec: a spec written out and parsed again
\* ===================================================================
\* models.py 49-52: https://github.com/{org}/{name}.git
url(r) == HttpsPrefix \o r.org \o <<"/">> \o r.name \o DotGit

\* models.py 54-72: org/name, @branch when there is one, and the local
\* path when there is one
display_name(r) ==
    full_name(r)
        \o (IF r.branch # None THEN <<"@">> \o r.branch ELSE <<>>)
        \o (IF r.local_path # None
            THEN <<" ", "(", "l", "o", "c", "a", "l", ":", " ">> \o r.local_path \o <<")">>
            ELSE <<>>)

\* the strings of up to MaxSpecLen characters, and each behind the prefix of a URL
MaxSpecLen == 4
SpecStrings ==
    LET short == UNION { [1..n -> {"a", "/", "@", "."}] : n \in 1..MaxSpecLen }
    IN  short \cup { HttpsPrefix \o s : s \in short }

\* the string a caller is about to hand to parse
RepoSpecInit ==
    \E spec \in SpecStrings :
        HomeInit({}, {}, [op |-> "parse", pc |-> "call", outcome |-> "", spec |-> spec])

\* written out as the name, or as the URL
Written(r) == [by_name |-> display_name(r), by_url |-> url(r)]

\* RepoSpec.parse(spec), then parse of what the spec is written out as
RoundTrip ==
    /\ call.op = "parse" /\ call.pc = "call"
    /\ call' = [op |-> "parse", pc |-> "done",
                outcome |-> IF parse(call.spec).ok THEN "ok" ELSE "ValueError",
                spec |-> call.spec, parsed |-> parse(call.spec),
                by_name |-> IF parse(call.spec).ok
                            THEN parse(Written(parse(call.spec)).by_name)
                            ELSE parse(call.spec),
                by_url |-> IF parse(call.spec).ok
                           THEN parse(Written(parse(call.spec)).by_url)
                           ELSE parse(call.spec)]
    /\ UNCHANGED <<workspace, _baseline_hashes, gitea, procs>>
    /\ UNCHANGED manager

RepoSpecNext == RoundTrip

RepoSpecSpec == RepoSpecInit /\ [][RepoSpecNext]_vars

\* C29: a spec that parse accepts, written out as org/name[@ref] or as its
\* URL and parsed again, gives the same org, name and ref.
C29_RoundTrip ==
    (call.op = "parse" /\ call.outcome = "ok")
        => /\ call.by_name.ok /\ call.by_url.ok
           /\ call.by_name.org = call.parsed.org /\ call.by_url.org = call.parsed.org
           /\ call.by_name.name = call.parsed.name /\ call.by_url.name = call.parsed.name
           /\ call.by_name.branch = call.parsed.branch
           /\ call.by_url.branch = call.parsed.branch


\* ===================================================================
\* ShadowTool._create: manager.create, then the smoke test
\* ===================================================================
\* a smoke test started on whatever shadow is being provisioned
being_created(t) ==
    IF task[t].pc \in {"c_push", "c_rewrite"} THEN {task[t].shadow_id} ELSE {}

\* tool lines 219-224: the handle manager.create returned to this call
created_by(t) ==
    IF task[t].pc = "idle" /\ result[t].op = "create" /\ result[t].outcome = "ok"
    THEN {result[t].shadow_id} ELSE {}

\* tool lines 247-249 and 300-308: the clone of the first repository is
\* started in the container, under the rules it finds there
SmokeTest(t) ==
    /\ call.pc = "done"
    /\ \E id \in created_by(t) :
          call' = [op |-> "smoke_test", pc |-> "done", outcome |-> "",
                   shadow_id |-> id, rules |-> gitconfig[id]]
    /\ UNCHANGED <<workspace, _baseline_hashes, gitea, procs>>
    /\ UNCHANGED manager

ToolCreateNext ==
    \E t \in Tasks :
        \/ \E name \in Ids, ls \in LocalMappings : CreateCall(t, name, ls, Empty)
        \/ CreateExists(t)
        \/ CreateSnapshot(t)
        \/ CreateImage(t)
        \/ CreateRun(t)
        \/ CreateWaitReady(t)
        \/ CreatePush(t)
        \/ CreateRewrite(t)
        \/ CreateCleanup(t)
        \/ SmokeTest(t)
        \/ \E p \in GitRepos : Commit(p)

ToolCreateSpec == Init /\ [][ToolCreateNext]_vars

\* C30: in one create a bundle is written only while no container runs;
\* the container is started when every spec has its bundle; a repository
\* is pushed into the forge of the running container, after the wait for
\* the forge, when the specs before it in the list are pushed and none
\* after it; the rules are installed when every spec is pushed; metadata
\* and handle follow the rules; and the smoke test starts on a shadow
\* whose create has returned, rules, metadata and handle in place.
C30_CreateStepsInOrder ==
    [][\A t \in Tasks :
          LET id == task[t].shadow_id
              specs == task[t].repo_specs
          IN  /\ (task[t].pc \in CreatePcs /\ bundles'[id] # bundles[id]
                     /\ task'[t].pc # "idle")
                    => /\ containers[id] = "none" /\ forge[id] = << >>
                       /\ gitconfig[id] = {} /\ id \notin DOMAIN metadata
              /\ (task[t].pc \in CreatePcs /\ containers[id] # "running"
                     /\ containers'[id] = "running")
                    => /\ \A k \in DOMAIN specs :
                             <<specs[k].org, specs[k].name>> \in DOMAIN bundles[id]
                       /\ forge[id] = << >>
              /\ (task[t].pc \in CreatePcs /\ forge'[id] # forge[id]
                     /\ forge'[id] # << >>)
                    => /\ containers[id] = "running"
                       /\ task[t].pc = "c_push"
                       /\ DOMAIN forge[id]
                             = { <<specs[k].org, specs[k].name>> : k \in 1..(task[t].i - 1) }
                       /\ DOMAIN forge'[id]
                             = { <<specs[k].org, specs[k].name>> : k \in 1..task[t].i }
                       /\ gitconfig[id] = {} /\ id \notin DOMAIN metadata
              /\ (task[t].pc \in CreatePcs /\ gitconfig'[id] # gitconfig[id])
                    => /\ \A k \in DOMAIN specs :
                             <<specs[k].org, specs[k].name>> \in DOMAIN forge[id]
                       /\ id \notin DOMAIN metadata /\ id \notin DOMAIN environments
              /\ (task[t].pc \in CreatePcs
                     /\ (id \in DOMAIN metadata' \ DOMAIN metadata
                            \/ id \in DOMAIN environments' \ DOMAIN environments))
                    => /\ gitconfig'[id] # {}
                       /\ id \in DOMAIN metadata' /\ id \in DOMAIN environments'
              /\ (call'.op = "smoke_test" /\ call' # call)
                    => /\ task[t].pc = "idle"
                       /\ call'.rules # {}
                       /\ call'.rules = gitconfig[call'.shadow_id]
                       /\ call'.shadow_id \in DOMAIN metadata
                       /\ call'.shadow_id \in DOMAIN environments]_vars

\* the smoke test started on a shadow of two repositories, both pushed
C30_SmokeTestAfterTwoPushes ==
    /\ call.op = "smoke_test"
    /\ Cardinality(DOMAIN forge[call.shadow_id]) = 2
    /\ Cardinality(call.rules) = 2


\* C31: when create has failed at the snapshot of a source, at the image
\* or at the start of the container, no directory and no container of
\* that shadow remain and the id is not in the cache.
C31_EarlyFailureRollsBack ==
    \A t \in Tasks :
        (result[t].op = "create"
            /\ result[t].outcome \in {"SnapshotFailed", "ImageUnavailable",
                                      "ContainerStartFailed"})
            => /\ result[t].shadow_id \notin dirs
               /\ containers[result[t].shadow_id] = "none"
               /\ result[t].shadow_id \notin DOMAIN environments


\* ===================================================================
\* the handle of a shadow: from create, from disk, after a listing
\* ===================================================================
\* a handle that takes its baseline when it is built from disk
baseline_at_load == current_files(<<>>)

\* environment.py line 36: _baseline_hashes of a handle just constructed
default_factory == << >>

\* manager.get (lines 204-211) as the tool's operations call it; the
\* baseline is the one of the handle now in the cache
GetHandle(t, id) ==
    /\ task[t].pc = "idle"
    /\ id \notin DOMAIN environments /\ Loadable(id)
    /\ environments' = get_cache(id)
    /\ _baseline_hashes' = default_factory
    /\ UNCHANGED <<dirs, bundles, metadata, containers, forge, gitconfig,
                   head, task, result, executed>>
    /\ UNCHANGED <<workspace, gitea, procs, call>>

\* lines 300-311: every directory is loaded from disk, and each load puts
\* its new handle in the cache
ListEnvironments(t) ==
    /\ task[t].pc = "idle"
    /\ environments' = [id \in DOMAIN environments \cup { d \in dirs : Loadable(d) } |->
                           IF Loadable(id) THEN _load_from_disk(id)
                           ELSE environments[id]]
    /\ _baseline_hashes' = IF \E d \in dirs : Loadable(d) THEN default_factory
                           ELSE _baseline_hashes
    /\ call' = [op |-> "list", pc |-> "done", outcome |-> "ok"]
    /\ UNCHANGED <<dirs, bundles, metadata, containers, forge, gitconfig,
                   head, task, result, executed>>
    /\ UNCHANGED <<workspace, gitea, procs>>

\* a command run in the container of a created shadow changes a file
HandleWrite(id, f, content) ==
    /\ id \in DOMAIN metadata /\ containers[id] = "running"
    /\ WriteFile(f, content)

HandleDelete(id, f) ==
    /\ id \in DOMAIN metadata /\ containers[id] = "running"
    /\ DeleteFile(f)

\* tool lines 545-577: diff on the handle get returns
HandleDiff(id) ==
    /\ id \in DOMAIN environments
    /\ Diff(None)

HandleNext ==
    \E t \in Tasks :
        \/ \E name \in Ids : CreateCall(t, name, <<SrcR>>, Empty)
        \/ CreateExists(t)
        \/ CreateSnapshot(t)
        \/ CreateImage(t)
        \/ CreateRun(t)
        \/ CreateWaitReady(t)
        \/ CreatePush(t)
        \/ CreateRewrite(t)
        \/ CreateCleanup(t)
        \/ Restart(t)
        \/ \E id \in Ids : GetHandle(t, id)
        \/ ListEnvironments(t)
        \/ \E id \in Ids, f \in Files, content \in Contents : HandleWrite(id, f, content)
        \/ \E id \in Ids, f \in Files : HandleDelete(id, f)
        \/ \E id \in Ids : HandleDiff(id)

HandleSpec == Init /\ [][HandleNext]_vars

\* C32: diff compares the workspace with the workspace of create time,
\* the empty directory create made, whichever handle it is called on: the
\* one create returned, one rebuilt from disk in a new process, or one
\* got after list_environments; its result is given by the workspace
\* alone.
C32_DiffSameOnEveryHandle ==
    (call.op = "diff" /\ call.path = <<>>)
        => call.changed = { [path |-> f, change_type |-> "added"] : f \in DOMAIN workspace }

\* diff reported changes on a handle rebuilt from disk
C32_DiffOnRebuiltHandle ==
    /\ call.op = "diff" /\ call.changed # {}
    /\ "a" \in DOMAIN environments /\ ~environments["a"].baseline

\* C37: on one manager, from the create of a shadow to its destroy, the
\* cache holds the handle create returned: whatever is called in between,
\* a handle that stays in the cache stays the same handle, its baseline
\* with it.
C37_SameHandleUntilDestroy ==
    [][\A id \in DOMAIN environments \cap DOMAIN environments' :
          environments'[id] = environments[id]]_vars


\* C33: when the metadata of a shadow that has one is saved again, the
\* fields the operation does not change keep their value: the image tag
\* and the list of variable names are the ones the file had, at every step
\* that starts or ends an operation.
C33_SavedAgainKeepsFields ==
    [][\A id \in DOMAIN metadata \cap DOMAIN metadata' :
          /\ IF Len(metadata[id].image) = 0 THEN Len(metadata'[id].image) = 0
             ELSE Len(metadata'[id].image) > 0 /\ metadata'[id].image = metadata[id].image
          /\ metadata'[id].env_vars_passed = metadata[id].env_vars_passed]_<<task, result>>


\* C34: an exec or exec_batch that ended with a non-zero exit status or a
\* timeout reports failure with one entry, exit status and output, for
\* each command that ran, and leaves the handle of the shadow ready.
C34_FailedExecReportsWhatRan ==
    \A t \in Tasks :
        (result[t].op \in {"exec", "exec_batch"}
            /\ result[t].outcome \in {"CommandFailed", "BatchFailed", "Timeout"})
            => /\ ~result[t].success
               /\ Len(result[t].steps) = Len(executed)
               /\ \A k \in DOMAIN executed : result[t].steps[k].command = executed[k][2]
               /\ result[t].shadow_id \in DOMAIN environments
                     => environments[result[t].shadow_id].status = "ready"



\* ===================================================================
\* the bundle files of a shadow and their reader in the container
\* ===================================================================
\* snapshot.py 101-103: snapshot_dir / org / "<name>.bundle"
get_bundle_path(org, name) == org \o "/" \o name \o ".bundle"

\* a sync that writes the new bundle where the old one is
sync_in_place(bundle_path) == bundle_path

\* the path sync-source writes the new bundle to, before the rename
sync_path(bundle_path) == bundle_path \o ".tmp"

\* os.rename
rename(files, from, to) ==
    IF from = to THEN files
    ELSE [f \in (DOMAIN files \ {from}) \cup {to} |-> IF f = to THEN files[from] ELSE files[f]]

NothingRead == [sha |-> 0, complete |-> TRUE]

\* create with the mapping /p:a/r given n times; the snapshot loop is at
\* its first source
BundleInit ==
    \E n \in 1..MaxSources :
        HomeInit({}, {}, [op |-> "create", pc |-> "snapshot", outcome |-> "",
                          files |-> Empty, read |-> NothingRead,
                          n |-> n, i |-> 1, exit_code |-> 0])

BundleKeep ==
    /\ UNCHANGED <<dirs, bundles, metadata, forge, gitconfig, environments,
                   head, task, result, executed>>
    /\ UNCHANGED <<workspace, _baseline_hashes, gitea, procs>>

\* snapshot.py 116-141: git bundle create is given the bundle's own path;
\* the file is there, unfinished, until git has written it all
BundleOpen(path, local_path, pc) ==
    /\ call' = [call EXCEPT !.pc = pc, !.exit_code = 0,
                   !.files = With(@, path, [sha |-> head[local_path], complete |-> FALSE])]
    /\ BundleKeep

BundleClose(path, pc, i) ==
    /\ call' = [call EXCEPT !.pc = pc, !.i = i, !.outcome = "ok",
                   !.files = [@ EXCEPT ![path].complete = TRUE]]
    /\ BundleKeep

\* snapshot.py 276-289: _run_git returns stdout and stderr whatever the
\* exit status; lines 84-89: the result is built with bundle_path.stat()
snapshot_result(exit_code, is_file) ==
    IF is_file THEN "ok" ELSE "FileNotFoundError"

\* manager.py 108-116: the snapshot loop of create, before the container
SnapshotOpen(id, spec) ==
    /\ call.pc = "snapshot" /\ containers[id] = "none"
    /\ BundleOpen(get_bundle_path(spec.org[1], spec.name[1]), spec.local_path, "writing")
    /\ UNCHANGED containers

SnapshotClose(id, spec) ==
    /\ call.pc = "writing"
    /\ BundleClose(get_bundle_path(spec.org[1], spec.name[1]),
                   IF call.i = call.n THEN "written" ELSE "snapshot",
                   IF call.i = call.n THEN call.i ELSE call.i + 1)
    /\ UNCHANGED containers

\* git bundle create exits with an error and writes no file
SnapshotGitFails(id, spec) ==
    LET outcome == snapshot_result(128, get_bundle_path(spec.org[1], spec.name[1])
                                            \in DOMAIN call.files)
    IN  /\ call.pc = "snapshot" /\ containers[id] = "none"
        /\ call' = [call EXCEPT !.exit_code = 128, !.outcome = outcome,
                       !.pc = IF outcome # "ok" THEN "failed"
                              ELSE IF call.i = call.n THEN "written" ELSE "snapshot",
                       !.i = IF outcome # "ok" \/ call.i = call.n THEN call.i
                             ELSE call.i + 1]
        /\ UNCHANGED containers
        /\ BundleKeep

\* manager.py 141-148: the container starts with snapshots/ mounted
RunContainer(id) ==
    /\ call.pc = "written"
    /\ containers' = [containers EXCEPT ![id] = "running"]
    /\ call' = [call EXCEPT !.op = "", !.pc = "ready"]
    /\ BundleKeep

\* sync-source of a source the shadow has: the new bundle is written to
\* sync_path, then renamed over the old one
SyncOpen(id, spec) ==
    /\ call.pc = "ready" /\ containers[id] = "running"
    /\ BundleOpen(sync_path(get_bundle_path(spec.org[1], spec.name[1])), spec.local_path,
                  "sync_writing")
    /\ UNCHANGED containers

SyncClose(id, spec) ==
    /\ call.pc = "sync_writing"
    /\ BundleClose(sync_path(get_bundle_path(spec.org[1], spec.name[1])), "sync_written", call.i)
    /\ UNCHANGED containers

SyncRename(id, spec) ==
    /\ call.pc = "sync_written"
    /\ call' = [call EXCEPT !.op = "sync_source", !.pc = "ready",
                   !.files = rename(@, sync_path(get_bundle_path(spec.org[1], spec.name[1])),
                                    get_bundle_path(spec.org[1], spec.name[1]))]
    /\ UNCHANGED containers
    /\ BundleKeep

\* a process in the container opens /snapshots/<org>/<name>.bundle
ReadBundle(id, spec) ==
    /\ containers[id] = "running"
    /\ call' = [call EXCEPT !.read = call.files[get_bundle_path(spec.org[1], spec.name[1])]]
    /\ UNCHANGED containers
    /\ BundleKeep

BundleNext ==
    \/ SnapshotOpen("a", CreatedSpec)
    \/ SnapshotClose("a", CreatedSpec)
    \/ SnapshotGitFails("a", CreatedSpec)
    \/ RunContainer("a")
    \/ SyncOpen("a", CreatedSpec)
    \/ SyncClose("a", CreatedSpec)
    \/ SyncRename("a", CreatedSpec)
    \/ ReadBundle("a", CreatedSpec)
    \/ \E p \in GitRepos : Commit(p)

BundleSpec == BundleInit /\ [][BundleNext]_vars

\* C35: while the container of a shadow runs, the file at the path of a
\* bundle is a whole bundle, and what a reader in the container has read
\* there is a whole bundle: the bundle is written before the container
\* starts, and a sync puts the new one in place by a rename.
C35_ReaderSeesWholeBundle ==
    containers["a"] = "running"
        => /\ call.read.complete
           /\ call.files["a/r.bundle"].complete

\* the reader has read the bundle a sync put in place
C35_ReadAfterSync ==
    /\ call.op = "sync_source" /\ call.pc = "ready"
    /\ call.read.sha = 2 /\ call.files["a/r.bundle"].sha = 2

\* C36: when git bundle create has failed, create_snapshot fails with the
\* snapshot error, and returns no result.
C36_GitFailureIsSnapshotError ==
    (call.op = "create" /\ call.exit_code # 0) => call.outcome = "SnapshotError"


\* C38: the source list of a shadow never holds two specs of the same
\* organisation and name.
C38_NoTwoSpecsOfOneRepo ==
    \A id \in DOMAIN environments :
        \A j, k \in DOMAIN environments[id].repos :
            RepoKey(environments[id].repos[j]) = RepoKey(environments[id].repos[k]) => j = k

\* add_source has been called with sources on a shadow created with two
C38_TwoSourcesThenAddSource ==
    \E t \in Tasks :
        /\ result[t].op = "add_source" /\ result[t].keys # {}
        /\ "a" \in DOMAIN environments
        /\ Len(environments["a"].repos) = 2



\* ===================================================================
\* two create calls at the same time
\* ===================================================================
\* the two callers, one create each
Callers == {"t1", "t2"}

ConcurrentInit ==
    /\ dirs = {}
    /\ bundles = [id \in HomeIds |-> Empty]
    /\ metadata = Empty
    /\ containers = [id \in HomeIds |-> "none"]
    /\ forge = [id \in HomeIds |-> Empty]
    /\ gitconfig = [id \in HomeIds |-> {}]
    /\ environments = Empty
    /\ head = [p \in GitRepos |-> 1]
    /\ task = [t \in Callers |-> Idle]
    /\ result = [t \in Callers |-> NoResult]
    /\ executed = <<>>
    /\ workspace = Empty
    /\ _baseline_hashes = Empty
    /\ gitea = "starting"
    /\ procs = {}
    /\ call = NoCall

\* a mkdir that accepts a directory that is there
mkdir_exist_ok(id) == FALSE

\* manager.py 97: shadow_dir.mkdir(parents=True) raises FileExistsError
\* when the directory is there
mkdir_raises(id) == id \in dirs

\* the first call of a caller
FirstCreate(t, name, local_sources) ==
    /\ result[t] = NoResult
    /\ CreateCall(t, name, local_sources, Empty)

\* lines 93-101 when another create may have run since the directory test
CreateMkdir(t) ==
    /\ task[t].pc = "c_exists"
    /\ IF ~exists(task[t].shadow_id) /\ mkdir_raises(task[t].shadow_id)
       THEN /\ Return(t, CreateResult(t, "FileExistsError", "mkdir"))
            /\ UNCHANGED <<dirs, bundles, metadata, containers, forge, gitconfig,
                           environments, head, executed>>
            /\ UNCHANGED parts
       ELSE CreateExists(t)

ConcurrentNext ==
    \E t \in Callers :
        \/ \E name \in HomeIds, ls \in Lists({SrcR}) : FirstCreate(t, name, ls)
        \/ CreateMkdir(t)
        \/ CreateSnapshot(t)
        \/ CreateImage(t)
        \/ CreateRun(t)
        \/ CreateWaitReady(t)
        \/ CreatePush(t)
        \/ CreateRewrite(t)
        \/ CreateCleanup(t)

ConcurrentSpec == ConcurrentInit /\ [][ConcurrentNext]_vars

\* the shadow a caller is creating, or has asked for
asked(t) == IF task[t].pc = "idle" THEN result[t].shadow_id ELSE task[t].shadow_id

created(t) == result[t].op = "create" /\ result[t].outcome = "ok"

\* C39: of two create calls at the same time for one name at most one
\* returns a handle, and the shadow of a create that returned has its
\* directory, its metadata, its container running and its handle in the
\* cache, whatever became of the other call; a create is turned down as
\* existing only when the other call is for the same name.
C39_ConcurrentCreates ==
    /\ \A t, u \in Callers :
          (created(t) /\ created(u) /\ t # u) => result[t].shadow_id # result[u].shadow_id
    /\ \A t \in Callers :
          created(t) => /\ result[t].shadow_id \in dirs
                        /\ result[t].shadow_id \in DOMAIN metadata
                        /\ containers[result[t].shadow_id] = "running"
                        /\ result[t].shadow_id \in DOMAIN environments
    /\ \A t \in Callers :
          (result[t].op = "create"
              /\ result[t].outcome \in {"AlreadyExists", "FileExistsError"})
              => \E u \in Callers \ {t} : asked(u) = result[t].shadow_id

\* both calls were past the directory test for the same name; one has
\* returned a handle, the other failed at mkdir
C39_OneOfTwoCreated ==
    \E t, u \in Callers :
        /\ created(t)
        /\ result[u].op = "create" /\ result[u].outcome = "FileExistsError"
        /\ result[u].shadow_id = result[t].shadow_id


\* ===================================================================
\* wait_ready with its awaits returning
\* ===================================================================
\* Each call into the container returns and each sleep ends, so the event
\* loop resumes the coroutine: a step of the loop that can be taken is
\* taken.  Nothing says that the forge ever starts.
WaitReadySpec ==
    /\ Init /\ [][RuntimeNext]_vars
    /\ WF_vars(WaitReadyVersion) /\ WF_vars(WaitReadyUser)

\* C40: a wait_ready that was called finishes; with the forge ready and
\* the timeout not yet passed it returns; when it raises the timeout
\* error the timeout has passed.
C40_WaitReadyFinishes ==
    /\ (call.op = "wait_ready" /\ call.pc # "done")
          ~> (call.op = "wait_ready" /\ call.pc = "done"
                /\ \/ call.outcome = "ok"
                   \/ call.outcome = "GiteaTimeoutError" /\ call.elapsed = MaxPolls)
    /\ (call.op = "wait_ready" /\ call.pc # "done" /\ gitea = "ready"
            /\ call.elapsed < MaxPolls)
          ~> (call.op = "wait_ready" /\ call.pc = "done" /\ call.outcome = "ok")

\* wait_ready raised the timeout error on a forge that never was ready
C40_TimedOutNeverReady ==
    /\ call.op = "wait_ready" /\ call.pc = "done"
    /\ call.outcome = "GiteaTimeoutError" /\ gitea = "starting"
====
